---- MODULE Spec2Model ----
(***************************************************************************)
(* Benchmark harness of mongo-bench: ProfileFunc (internal/utils/          *)
(* profiler.go) and RunOptimizationComparison (internal/utils/bench.go).   *)
(*                                                                         *)
(* The harness is one sequential thread.  The document store and the Go    *)
(* runtime are its environment: a query function returns nil or a store    *)
(* error, takes some time and allocates some bytes; index creation         *)
(* succeeds or fails.  Those outcomes are drawn from small sets.           *)
(*                                                                         *)
(* uint64 values are kept modulo 2^UintBits, a scaled-down word, so that   *)
(* wrap-around of runtime.MemStats.TotalAlloc is reachable.  float64       *)
(* values are exact rationals num/den (rounding is not modelled), with     *)
(* NaN and Inf for a division by zero.                                     *)
(*                                                                         *)
(* The module also holds the run subcommand (cmd/run, both versions of its *)
(* --test flag) with the catalogue entries it profiles, the batch          *)
(* functions of the generator with their insert goroutines, and the two    *)
(* query functions of the projection pair over a store and a clock, and    *)
(* the ticker loop of the generate command (cmd/generate).  Each            *)
(* program has its own initial predicate and next-state relation; the      *)
(* variables of the programs that are not running stay at their idle       *)
(* values.                                                                 *)
(***************************************************************************)
EXTENDS Integers, Sequences, FiniteSets, TLC

\* ------------------------------------------------------------- bounds
UintBits == 13          \* width of the scaled-down uint64 / int64 word
MaxDur == 2             \* longest time (ns) one query function call takes
MaxTests == 3           \* registered tests explored (a prefix of the catalogue)
MaxNames == 2           \* longest list of --test names
MaxEvents == 3          \* events of one batch of the generator
MaxDocs == 2            \* documents in the store
Day == 2                \* clock ticks in 24 hours
MaxTicks == 2           \* clock ticks that pass while the projection pair runs
MaxMinutes == 1         \* largest --duration of the generate command
MinuteSecs == 2         \* seconds in a minute (scaled down)
MaxInterval == 2        \* largest --interval of the generate command, in seconds
MaxBatchTime == 2       \* longest time (s) one batch of the generate command takes

\* -------------------------------------------------- program constants
testRepetitions == 3    \* bench.go:56
NumPairs == 3           \* len(GetOptimizationPairs()), bench.go:23-47
IndexPair == 2          \* bench.go:63, `if i == 2`
MemFloor == 1024        \* bench.go:155, `> 1024`

UintMod == 2 ^ UintBits
IntMax == 2 ^ (UintBits - 1) - 1

Nil == "nil"
\* errors a catalogue entry can return: issuing the query, draining the cursor
StoreErrors == {"queryErr", "cursorErr"}
Outcomes == {Nil} \cup StoreErrors
\* elapsed time of one call of a query function
Durations == {0, MaxDur}
\* bytes one call of a query function allocates
AllocChunk == 2 ^ (UintBits - 2)
AllocAmounts == {0, AllocChunk}

Variants == {"anti", "opt"}
Pairs == 0 .. (NumPairs - 1)

\* ------------------------------------------------- machine arithmetic
\* uint64 addition and subtraction (wrap around)
UAdd(a, b) == (a + b) % UintMod
USub(a, b) == (a - b) % UintMod
\* int64(x) of a uint64 x: two's complement reinterpretation
ToInt64(u) == IF u > IntMax THEN u - UintMod ELSE u
\* int64 subtraction (wraps)
SubInt64(a, b) == ToInt64((a - b) % UintMod)

\* float64 as an exact rational, or NaN / Inf
FloatRat(n, d) == [kind |-> "fin", num |-> n, den |-> d]
FloatNaN == [kind |-> "nan", num |-> 0, den |-> 1]
FloatInf(s) == [kind |-> "inf", num |-> s, den |-> 1]
FloatZero == FloatRat(0, 1)
\* float64(a) / float64(b): IEEE division, no panic on a zero divisor
FloatDiv(a, b) ==
    IF b = 0
    THEN (IF a = 0 THEN FloatNaN ELSE FloatInf(IF a > 0 THEN 1 ELSE -1))
    ELSE IF b > 0 THEN FloatRat(a, b) ELSE FloatRat(-a, -b)
\* x * 100
FloatTimes100(x) == IF x.kind = "fin" THEN FloatRat(x.num * 100, x.den) ELSE x
\* equality of two float values
FloatEq(x, y) ==
    /\ x.kind = y.kind
    /\ x.kind = "fin" => x.num * y.den = y.num * x.den
    /\ x.kind = "inf" => x.num = y.num

\* ----------------------------------------------------- the pair table
AntiPatternName(p) ==
    CASE p = 0 -> "Anti-pattern 1 - Full Document Retrieval"
      [] p = 1 -> "Anti-pattern 2 - Aggregate Without Filtering"
      [] p = 2 -> "Anti-pattern 3 - Sorting Without Index"
OptimizedName(p) ==
    CASE p = 0 -> "Optimization 1 - Using Projection"
      [] p = 1 -> "Optimization 2 - Filter Before Aggregation"
      [] p = 2 -> "Optimization 3 - Using Index for Sorting"
AntiPatternFunc(p) ==
    CASE p = 0 -> "FindAllFieldsAntiPattern"
      [] p = 1 -> "AggregateBeforeFilterAntiPattern"
      [] p = 2 -> "SortWithoutIndexAntiPattern"
OptimizedFunc(p) ==
    CASE p = 0 -> "FindWithProjectionOptimized"
      [] p = 1 -> "FilterBeforeAggregateOptimized"
      [] p = 2 -> "SortWithIndexOptimized"

\* ProfileResult (profiler.go:10-14)
ProfileResult(n, t, m) == [Name |-> n, ExecutionTime |-> t, MemoryUsage |-> m]
NoResult == ProfileResult("", 0, 0)
\* fmt.Sprintf("%s (run %d/%d)", name, r+1, testRepetitions)
RunName(n, k) == <<n, k, testRepetitions>>

VARIABLES
    \* RunOptimizationComparison
    pc, i, r,
    antiPatternTotalTime, antiPatternTotalMem,
    optimizedTotalTime, optimizedTotalMem,
    antiPatternResult, optimizedResult,
    timeDiff, timeImprovement, memDiff, memImprovement,
    result, err, indexErr, retErr, output,
    \* ProfileFunc
    ppc, name, baselineAlloc, timing, elapsed, execTime, fnErr, finalAlloc,
    \* Go runtime
    TotalAlloc,
    \* history of the run
    trace, fnCalls, unit, hist, okSum, discarded,
    \* the run subcommand (cmd/run)
    cpc, cmdVersion, testsName, testPairs, results, idx, logged, shown,
    summary, summarized, connected, disconnected, exited, exitCode, fatal, ran,
    storeCall,
    \* the batch functions of the generator
    gpc, genFn, eventCount, gi, wg, gor, attempts, insertErr,
    \* the document store and the clock, as the projection pair sees them
    qpc, store, now, found, calls,
    \* the generate command: its flags, its clock, its ticker and its loop
    lpc, duration, interval, timeNow, endTime, nextTick, tickerC, batches, ticks

runnerVars == <<pc, i, r, antiPatternTotalTime, antiPatternTotalMem,
                optimizedTotalTime, optimizedTotalMem,
                antiPatternResult, optimizedResult,
                timeDiff, timeImprovement, memDiff, memImprovement,
                result, err, indexErr, retErr, output>>
accVars == <<antiPatternTotalTime, antiPatternTotalMem,
             optimizedTotalTime, optimizedTotalMem>>
avgVars == <<antiPatternResult, optimizedResult>>
cmpVars == <<timeDiff, timeImprovement, memDiff, memImprovement>>
profVars == <<ppc, name, baselineAlloc, timing, elapsed, execTime, fnErr, finalAlloc>>
histVars == <<trace, fnCalls, unit, hist, okSum, discarded>>
cmdVars == <<cpc, cmdVersion, testsName, testPairs, results, idx, logged, shown,
             summary, summarized, connected, disconnected, exited, exitCode, fatal,
             ran, storeCall>>
genVars == <<gpc, genFn, eventCount, gi, wg, gor, attempts, insertErr>>
catVars == <<qpc, store, now, found, calls>>
\* the programs that do not use the profiler
loopVars == <<lpc, duration, interval, timeNow, endTime, nextTick, tickerC, batches, ticks>>
bgVars == <<genVars, catVars, loopVars>>
\* the state of the programs other than the comparison runner
extVars == <<cmdVars, bgVars>>
vars == <<runnerVars, profVars, TotalAlloc, histVars, extVars>>

\* ProfileFunc calls of one variant of the current pair, and how they ended
NoHist == [calls |-> 0, ok |-> 0, failed |-> 0]
\* time and bytes of the successful units of work of the measurement loop in progress
NoSum == [time |-> 0, mem |-> 0]
\* the unit of work of the current ProfileFunc call, as the environment ran it
NoUnit == [runs |-> 0, err |-> Nil, time |-> 0, mem |-> 0, baseline |-> 0, final |-> 0]
\* an entry of the trace: what happened, for which pair and variant, whether a
\* ProfileFunc call was in progress, and how an index creation ended
Event(kind, p, v, o) ==
    [ev |-> kind, pair |-> p, variant |-> v, window |-> ppc /= "idle", outcome |-> o]
Ended(e) == IF e = Nil THEN "ok" ELSE "failed"

\* the run subcommand is not running
NoStoreCall == [test |-> 0, issue |-> "-", drain |-> "-", reported |-> FALSE]
CmdOff ==
    /\ cpc = "off" /\ cmdVersion = "none" /\ testsName = <<>> /\ testPairs = <<>>
    /\ results = <<>> /\ idx = 0 /\ logged = <<>> /\ shown = <<>>
    /\ summary = <<>> /\ summarized = FALSE /\ connected = FALSE
    /\ disconnected = "-"
    /\ exited = FALSE /\ exitCode = 0 /\ fatal = "" /\ ran = <<>>
    /\ storeCall = NoStoreCall

\* goroutines a batch can spawn
Goroutines == 1 .. MaxEvents
\* no batch function of the generator is running
GenOff ==
    /\ gpc = "off" /\ genFn = "none" /\ eventCount = 0 /\ gi = 0 /\ wg = 0
    /\ gor = [g \in Goroutines |-> "unborn"]
    /\ attempts = [g \in Goroutines |-> 0]
    /\ insertErr = [g \in Goroutines |-> "-"]

\* the generate command is not running
LoopOff ==
    /\ lpc = "off" /\ duration = 0 /\ interval = 0 /\ timeNow = 0 /\ endTime = 0
    /\ nextTick = 0 /\ tickerC = 0 /\ batches = 0 /\ ticks = 0

\* what a call of a query function of the projection pair found
NotCalled ==
    [called |-> FALSE, at |-> 0, err |-> Nil, ids |-> {}, count |-> 0, fields |-> {}]
\* the projection pair is not under observation
CatOff ==
    /\ qpc = "off" /\ store = <<>> /\ now = 0
    /\ found = [v \in Variants |-> NotCalled]
    /\ calls = <<>>

Init ==
    /\ pc = "loop" /\ i = 0 /\ r = 0
    /\ antiPatternTotalTime = 0 /\ antiPatternTotalMem = 0
    /\ optimizedTotalTime = 0 /\ optimizedTotalMem = 0
    /\ antiPatternResult = NoResult /\ optimizedResult = NoResult
    /\ timeDiff = 0 /\ timeImprovement = FloatZero
    /\ memDiff = 0 /\ memImprovement = FloatZero
    /\ result = NoResult /\ err = Nil /\ indexErr = Nil
    /\ retErr = "running" /\ output = <<>>
    /\ ppc = "idle" /\ name = <<>> /\ baselineAlloc = 0 /\ timing = FALSE
    /\ elapsed = 0 /\ execTime = 0 /\ fnErr = Nil /\ finalAlloc = 0
    /\ TotalAlloc = 0
    /\ trace = <<>>
    /\ fnCalls = [p \in Pairs |-> [v \in Variants |-> 0]]
    /\ unit = NoUnit
    /\ hist = [v \in Variants |-> NoHist]
    /\ okSum = NoSum
    /\ discarded = <<>>
    /\ CmdOff
    /\ GenOff
    /\ CatOff
    /\ LoopOff

\* ------------------------------------------------------- ProfileFunc
\* the variant whose measurement loop called ProfileFunc
Measured == IF pc = "antiCall" THEN "anti" ELSE "opt"

\* a query function of pair p runs: the store answers with outcome e after
\* d ns, and the call allocates a bytes
CallQuery(p, v, d, a) ==
    /\ TotalAlloc' = UAdd(TotalAlloc, a)
    /\ elapsed' = IF timing THEN elapsed + d ELSE elapsed
    /\ fnCalls' = [fnCalls EXCEPT ![p][v] = @ + 1]
    /\ trace' = Append(trace, Event("call", p, v, "-"))

\* mutant: the start timestamp is taken before the collection
ProfileGC_Timed ==
    /\ ppc = "gc"
    /\ ppc' = "baseline"
    /\ timing' = TRUE
    /\ elapsed' = 0
    /\ UNCHANGED <<name, baselineAlloc, execTime, fnErr, finalAlloc>>
    /\ UNCHANGED <<runnerVars, TotalAlloc, histVars>>
    /\ UNCHANGED extVars

\* profiler.go:32  runtime.GC()
ProfileGC ==
    /\ ppc = "gc"
    /\ ppc' = "baseline"
    /\ UNCHANGED <<name, baselineAlloc, timing, elapsed, execTime, fnErr, finalAlloc>>
    /\ UNCHANGED <<runnerVars, TotalAlloc, histVars>>
    /\ UNCHANGED extVars

\* profiler.go:33-34  baselineAlloc := memStats.TotalAlloc
ProfileReadBaseline ==
    /\ ppc = "baseline"
    /\ baselineAlloc' = TotalAlloc
    /\ ppc' = "start"
    /\ unit' = [unit EXCEPT !.baseline = TotalAlloc]
    /\ UNCHANGED <<name, timing, elapsed, execTime, fnErr, finalAlloc>>
    /\ UNCHANGED <<runnerVars, TotalAlloc, trace, fnCalls, hist, okSum, discarded>>
    /\ UNCHANGED extVars

\* profiler.go:37  startTime := time.Now()
ProfileStart ==
    /\ ppc = "start"
    /\ timing' = TRUE
    /\ elapsed' = 0
    /\ ppc' = "fn"
    /\ UNCHANGED <<name, baselineAlloc, execTime, fnErr, finalAlloc>>
    /\ UNCHANGED <<runnerVars, TotalAlloc, histVars>>
    /\ UNCHANGED extVars

\* profiler.go:40  err := fn(), fn being the closure of bench.go:94-96 / 120-122
ProfileInvoke ==
    /\ ppc = "fn" /\ pc \in {"antiCall", "optCall"}
    /\ \E d \in Durations, a \in AllocAmounts, e \in Outcomes :
          /\ CallQuery(i, Measured, d, a)
          /\ fnErr' = e
          /\ unit' = [unit EXCEPT !.runs = @ + 1, !.err = e, !.time = d, !.mem = a]
          /\ hist' = [hist EXCEPT ![Measured] =
                        IF e = Nil THEN [@ EXCEPT !.ok = @ + 1]
                                   ELSE [@ EXCEPT !.failed = @ + 1]]
          /\ okSum' = IF e = Nil THEN [time |-> okSum.time + d, mem |-> okSum.mem + a]
                                 ELSE okSum
    /\ ppc' = "since"
    /\ UNCHANGED <<name, baselineAlloc, timing, execTime, finalAlloc>>
    /\ UNCHANGED <<runnerVars, discarded>>
    /\ UNCHANGED extVars

\* mutant: the difference is taken the other way round (start minus now)
ProfileSince_Reversed ==
    /\ ppc = "since"
    /\ execTime' = 0 - elapsed
    /\ timing' = FALSE
    /\ ppc' = "final"
    /\ UNCHANGED <<name, baselineAlloc, elapsed, fnErr, finalAlloc>>
    /\ UNCHANGED <<runnerVars, TotalAlloc, histVars>>
    /\ UNCHANGED extVars

\* profiler.go:43  execTime := time.Since(startTime)
ProfileSince ==
    /\ ppc = "since"
    /\ execTime' = elapsed
    /\ timing' = FALSE
    /\ ppc' = "final"
    /\ UNCHANGED <<name, baselineAlloc, elapsed, fnErr, finalAlloc>>
    /\ UNCHANGED <<runnerVars, TotalAlloc, histVars>>
    /\ UNCHANGED extVars

\* profiler.go:46-47  finalAlloc := memStats.TotalAlloc
ProfileReadFinal ==
    /\ ppc = "final"
    /\ finalAlloc' = TotalAlloc
    /\ ppc' = "ret"
    /\ unit' = [unit EXCEPT !.final = TotalAlloc]
    /\ UNCHANGED <<name, baselineAlloc, timing, elapsed, execTime, fnErr>>
    /\ UNCHANGED <<runnerVars, TotalAlloc, trace, fnCalls, hist, okSum, discarded>>
    /\ UNCHANGED extVars

\* mutant: the difference clamped to 0 when the counter went down
AllocatedMem_Clamped(final, baseline) == IF final < baseline THEN 0 ELSE final - baseline

\* profiler.go:50  allocatedMem := finalAlloc - baselineAlloc   (uint64)
AllocatedMem(final, baseline) == USub(final, baseline)

\* mutant: no measurements in the ProfileResult when the unit of work failed
MakeResult_EmptyOnError(n, t, final, baseline, e) ==
    IF e /= Nil THEN ProfileResult(n, 0, 0) ELSE ProfileResult(n, t, USub(final, baseline))

\* profiler.go:53-57  the ProfileResult of a call (the same whatever fn returned)
MakeResult(n, t, final, baseline, e) == ProfileResult(n, t, AllocatedMem(final, baseline))

\* profiler.go:60  return result, err
ReturnedErr(e) == e

\* profiler.go:50-60, and the assignment `result, err := ProfileFunc(...)`
ProfileReturn ==
    /\ ppc = "ret" /\ pc \in {"antiCall", "optCall"}
    /\ result' = MakeResult(name, execTime, finalAlloc, baselineAlloc, fnErr)
    /\ err' = ReturnedErr(fnErr)
    /\ pc' = IF pc = "antiCall" THEN "antiRet" ELSE "optRet"
    /\ ppc' = "idle"
    /\ name' = <<>> /\ baselineAlloc' = 0 /\ elapsed' = 0 /\ execTime' = 0
    /\ fnErr' = Nil /\ finalAlloc' = 0
    /\ UNCHANGED <<timing, i, r, accVars, avgVars, cmpVars, indexErr, retErr, output>>
    /\ UNCHANGED <<TotalAlloc, histVars>>
    /\ UNCHANGED extVars

ProfileFunc ==
    \/ ProfileGC
    \/ ProfileReadBaseline
    \/ ProfileStart
    \/ ProfileInvoke
    \/ ProfileSince
    \/ ProfileReadFinal
    \/ ProfileReturn

\* ------------------------------------- RunOptimizationComparison
\* mutant: index creation and warm-up for every pair (no `if i == 2`)
PairStart_SetupEveryPair ==
    /\ pc = "loop" /\ i < NumPairs
    /\ pc' = "createIndex"
    /\ UNCHANGED <<i, r, accVars, avgVars, cmpVars, result, err, indexErr, retErr, output>>
    /\ UNCHANGED <<profVars, TotalAlloc, histVars>>
    /\ UNCHANGED extVars

\* bench.go:58-63  loop head: next pair, or the end of the loop
PairStart ==
    /\ pc = "loop" /\ i < NumPairs
    /\ pc' = IF i = IndexPair THEN "createIndex" ELSE "antiInit"
    /\ UNCHANGED <<i, r, accVars, avgVars, cmpVars, result, err, indexErr, retErr, output>>
    /\ UNCHANGED <<profVars, TotalAlloc, histVars>>
    /\ UNCHANGED extVars

\* mutant: a failed index creation is returned as the error of the run
CreateIndex_AbortOnError ==
    /\ pc = "createIndex"
    /\ \E e \in {Nil, "indexErr"} :
          /\ indexErr' = e
          /\ trace' = Append(trace, Event("index", i, "none", Ended(e)))
          /\ pc' = IF e /= Nil THEN "done" ELSE "warmAnti"
          /\ retErr' = IF e /= Nil THEN e ELSE retErr
    /\ UNCHANGED <<i, r, accVars, avgVars, cmpVars, result, err, output>>
    /\ UNCHANGED <<profVars, TotalAlloc, fnCalls, unit, hist, okSum, discarded>>
    /\ UNCHANGED extVars

\* bench.go:64-79  Indexes().CreateOne: succeeds or fails, the error is only printed
CreateIndex ==
    /\ pc = "createIndex"
    /\ \E e \in {Nil, "indexErr"} :
          /\ indexErr' = e
          /\ trace' = Append(trace, Event("index", i, "none", Ended(e)))
    /\ pc' = "warmAnti"
    /\ UNCHANGED <<i, r, accVars, avgVars, cmpVars, result, err, retErr, output>>
    /\ UNCHANGED <<profVars, TotalAlloc, fnCalls, unit, hist, okSum, discarded>>
    /\ UNCHANGED extVars

\* bench.go:83  _ = pair.AntiPatternFunc(qc)
WarmUpAntiPattern ==
    /\ pc = "warmAnti"
    /\ \E d \in Durations, a \in AllocAmounts, e \in Outcomes :
          /\ CallQuery(i, "anti", d, a)
          /\ discarded' = Append(discarded, e)
    /\ pc' = "warmOpt"
    /\ UNCHANGED <<i, r, accVars, avgVars, cmpVars, result, err, indexErr, retErr, output>>
    /\ UNCHANGED <<ppc, name, baselineAlloc, timing, execTime, fnErr, finalAlloc,
                   unit, hist, okSum>>
    /\ UNCHANGED extVars

\* bench.go:84-85  _ = pair.OptimizedFunc(qc)
WarmUpOptimized ==
    /\ pc = "warmOpt"
    /\ \E d \in Durations, a \in AllocAmounts, e \in Outcomes :
          /\ CallQuery(i, "opt", d, a)
          /\ discarded' = Append(discarded, e)
    /\ pc' = "antiInit"
    /\ UNCHANGED <<i, r, accVars, avgVars, cmpVars, result, err, indexErr, retErr, output>>
    /\ UNCHANGED <<ppc, name, baselineAlloc, timing, execTime, fnErr, finalAlloc,
                   unit, hist, okSum>>
    /\ UNCHANGED extVars

\* bench.go:88-93  var antiPatternTotalTime, antiPatternTotalMem; r := 0
AntiPatternInit ==
    /\ pc = "antiInit"
    /\ antiPatternTotalTime' = 0
    /\ antiPatternTotalMem' = 0
    /\ r' = 0
    /\ pc' = "antiLoop"
    /\ okSum' = NoSum
    /\ discarded' = <<>>
    /\ UNCHANGED <<i, optimizedTotalTime, optimizedTotalMem, avgVars, cmpVars,
                   result, err, indexErr, retErr, output>>
    /\ UNCHANGED <<profVars, TotalAlloc, trace, fnCalls, unit, hist>>
    /\ UNCHANGED extVars

\* mutant: the next repetition is started without waiting for the call in progress
AntiPatternCall_Overlap ==
    /\ pc \in {"antiLoop", "antiCall"} /\ r < testRepetitions
    /\ pc' = "antiCall"
    /\ ppc' = "gc"
    /\ name' = RunName(AntiPatternName(i), r + 1)
    /\ unit' = NoUnit
    /\ hist' = [hist EXCEPT !["anti"].calls = @ + 1]
    /\ UNCHANGED <<i, r, accVars, avgVars, cmpVars, result, err, indexErr, retErr, output>>
    /\ UNCHANGED <<baselineAlloc, timing, elapsed, execTime, fnErr, finalAlloc>>
    /\ UNCHANGED <<TotalAlloc, trace, fnCalls, okSum, discarded>>
    /\ UNCHANGED extVars

\* bench.go:93-96  r < testRepetitions: ProfileFunc("<name> (run r+1/3)", fn)
AntiPatternCall ==
    /\ pc = "antiLoop" /\ r < testRepetitions
    /\ pc' = "antiCall"
    /\ ppc' = "gc"
    /\ name' = RunName(AntiPatternName(i), r + 1)
    /\ unit' = NoUnit
    /\ hist' = [hist EXCEPT !["anti"].calls = @ + 1]
    /\ UNCHANGED <<i, r, accVars, avgVars, cmpVars, result, err, indexErr, retErr, output>>
    /\ UNCHANGED <<baselineAlloc, timing, elapsed, execTime, fnErr, finalAlloc>>
    /\ UNCHANGED <<TotalAlloc, trace, fnCalls, okSum, discarded>>
    /\ UNCHANGED extVars

\* mutant: the result of a failed repetition is added as well
Accumulate_CountFailed(total, res, e, field) == total + res[field]

\* bench.go:98-104  a failed repetition is skipped
Accumulate(total, res, e, field) == IF e /= Nil THEN total ELSE total + res[field]
AccumulateMem(total, res, e) == IF e /= Nil THEN total ELSE UAdd(total, res.MemoryUsage)

\* mutant: a failed repetition ends the loop (break instead of continue)
AntiPatternAccumulate_Break ==
    /\ pc = "antiRet"
    /\ antiPatternTotalTime' = Accumulate(antiPatternTotalTime, result, err, "ExecutionTime")
    /\ antiPatternTotalMem' = AccumulateMem(antiPatternTotalMem, result, err)
    /\ r' = IF err /= Nil THEN testRepetitions ELSE r + 1
    /\ result' = NoResult /\ err' = Nil
    /\ pc' = "antiLoop"
    /\ unit' = NoUnit
    /\ UNCHANGED <<i, optimizedTotalTime, optimizedTotalMem, avgVars, cmpVars,
                   indexErr, retErr, output>>
    /\ UNCHANGED <<profVars, TotalAlloc, trace, fnCalls, hist, okSum, discarded>>
    /\ UNCHANGED extVars

\* mutant: a failed repetition ends the whole run with its error
AntiPatternAccumulate_ReturnErr ==
    /\ pc = "antiRet"
    /\ antiPatternTotalTime' = Accumulate(antiPatternTotalTime, result, err, "ExecutionTime")
    /\ antiPatternTotalMem' = AccumulateMem(antiPatternTotalMem, result, err)
    /\ r' = r + 1
    /\ result' = NoResult /\ err' = Nil
    /\ pc' = IF err /= Nil THEN "done" ELSE "antiLoop"
    /\ retErr' = IF err /= Nil THEN err ELSE retErr
    /\ unit' = NoUnit
    /\ UNCHANGED <<i, optimizedTotalTime, optimizedTotalMem, avgVars, cmpVars,
                   indexErr, output>>
    /\ UNCHANGED <<profVars, TotalAlloc, trace, fnCalls, hist, okSum, discarded>>
    /\ UNCHANGED extVars

\* bench.go:98-105  if err != nil { continue }; totals += result; r++
AntiPatternAccumulate ==
    /\ pc = "antiRet"
    /\ antiPatternTotalTime' = Accumulate(antiPatternTotalTime, result, err, "ExecutionTime")
    /\ antiPatternTotalMem' = AccumulateMem(antiPatternTotalMem, result, err)
    /\ r' = r + 1
    /\ result' = NoResult /\ err' = Nil
    /\ pc' = "antiLoop"
    /\ unit' = NoUnit
    /\ UNCHANGED <<i, optimizedTotalTime, optimizedTotalMem, avgVars, cmpVars,
                   indexErr, retErr, output>>
    /\ UNCHANGED <<profVars, TotalAlloc, trace, fnCalls, hist, okSum, discarded>>
    /\ UNCHANGED extVars

\* mutant: the divisor is the number of successful repetitions
Average_BySuccessCount(total) ==
    LET n == hist[IF pc = "antiLoop" THEN "anti" ELSE "opt"].ok
    IN  IF n = 0 THEN 0 ELSE total \div n

\* bench.go:110-111, 136-137  total / testRepetitions
Average(total) == total \div testRepetitions

\* bench.go:107-112  antiPatternResult := ProfileResult{...}
AntiPatternAverage ==
    /\ pc = "antiLoop" /\ r >= testRepetitions
    /\ antiPatternResult' = ProfileResult(AntiPatternName(i),
                                          Average(antiPatternTotalTime),
                                          Average(antiPatternTotalMem))
    /\ pc' = "optInit"
    /\ UNCHANGED <<i, r, accVars, optimizedResult, cmpVars, result, err,
                   indexErr, retErr, output>>
    /\ UNCHANGED <<profVars, TotalAlloc, histVars>>
    /\ UNCHANGED extVars

\* mutant: the optimized totals go on from the anti-pattern totals
OptimizedInit_Carry ==
    /\ pc = "optInit"
    /\ optimizedTotalTime' = antiPatternTotalTime
    /\ optimizedTotalMem' = antiPatternTotalMem
    /\ r' = 0
    /\ pc' = "optLoop"
    /\ okSum' = NoSum
    /\ UNCHANGED <<i, antiPatternTotalTime, antiPatternTotalMem, avgVars, cmpVars,
                   result, err, indexErr, retErr, output>>
    /\ UNCHANGED <<profVars, TotalAlloc, trace, fnCalls, unit, hist, discarded>>
    /\ UNCHANGED extVars

\* bench.go:114-119  var optimizedTotalTime, optimizedTotalMem; r := 0
OptimizedInit ==
    /\ pc = "optInit"
    /\ optimizedTotalTime' = 0
    /\ optimizedTotalMem' = 0
    /\ r' = 0
    /\ pc' = "optLoop"
    /\ okSum' = NoSum
    /\ UNCHANGED <<i, antiPatternTotalTime, antiPatternTotalMem, avgVars, cmpVars,
                   result, err, indexErr, retErr, output>>
    /\ UNCHANGED <<profVars, TotalAlloc, trace, fnCalls, unit, hist, discarded>>
    /\ UNCHANGED extVars

\* bench.go:119-122  r < testRepetitions: ProfileFunc("<name> (run r+1/3)", fn)
OptimizedCall ==
    /\ pc = "optLoop" /\ r < testRepetitions
    /\ pc' = "optCall"
    /\ ppc' = "gc"
    /\ name' = RunName(OptimizedName(i), r + 1)
    /\ unit' = NoUnit
    /\ hist' = [hist EXCEPT !["opt"].calls = @ + 1]
    /\ UNCHANGED <<i, r, accVars, avgVars, cmpVars, result, err, indexErr, retErr, output>>
    /\ UNCHANGED <<baselineAlloc, timing, elapsed, execTime, fnErr, finalAlloc>>
    /\ UNCHANGED <<TotalAlloc, trace, fnCalls, okSum, discarded>>
    /\ UNCHANGED extVars

\* bench.go:124-131  if err != nil { continue }; totals += result; r++
OptimizedAccumulate ==
    /\ pc = "optRet"
    /\ optimizedTotalTime' = Accumulate(optimizedTotalTime, result, err, "ExecutionTime")
    /\ optimizedTotalMem' = AccumulateMem(optimizedTotalMem, result, err)
    /\ r' = r + 1
    /\ result' = NoResult /\ err' = Nil
    /\ pc' = "optLoop"
    /\ unit' = NoUnit
    /\ UNCHANGED <<i, antiPatternTotalTime, antiPatternTotalMem, avgVars, cmpVars,
                   indexErr, retErr, output>>
    /\ UNCHANGED <<profVars, TotalAlloc, trace, fnCalls, hist, okSum, discarded>>
    /\ UNCHANGED extVars

\* mutant: the optimized loop is left one repetition early
OptimizedAverage_Early ==
    /\ pc = "optLoop" /\ r >= testRepetitions - 1
    /\ optimizedResult' = ProfileResult(OptimizedName(i),
                                        Average(optimizedTotalTime),
                                        Average(optimizedTotalMem))
    /\ pc' = "improve"
    /\ UNCHANGED <<i, r, accVars, antiPatternResult, cmpVars, result, err,
                   indexErr, retErr, output>>
    /\ UNCHANGED <<profVars, TotalAlloc, histVars>>
    /\ UNCHANGED extVars

\* bench.go:133-138  optimizedResult := ProfileResult{...}
OptimizedAverage ==
    /\ pc = "optLoop" /\ r >= testRepetitions
    /\ optimizedResult' = ProfileResult(OptimizedName(i),
                                        Average(optimizedTotalTime),
                                        Average(optimizedTotalMem))
    /\ pc' = "improve"
    /\ UNCHANGED <<i, r, accVars, antiPatternResult, cmpVars, result, err,
                   indexErr, retErr, output>>
    /\ UNCHANGED <<profVars, TotalAlloc, histVars>>
    /\ UNCHANGED extVars

\* bench.go:141  timeDiff := anti.ExecutionTime - optimized.ExecutionTime
TimeDiff(anti, opt) == anti.ExecutionTime - opt.ExecutionTime

\* mutant: no guard against a zero anti-pattern time
TimeImprovement_Unguarded(anti, opt) ==
    FloatTimes100(FloatDiv(anti.ExecutionTime - opt.ExecutionTime, anti.ExecutionTime))

\* mutant: the optimized time as a percentage of the anti-pattern time
TimeImprovement_Ratio(anti, opt) ==
    IF anti.ExecutionTime > 0
    THEN FloatTimes100(FloatDiv(opt.ExecutionTime, anti.ExecutionTime))
    ELSE FloatZero

\* bench.go:144-149  guarded float64(timeDiff) / float64(anti time) * 100
TimeImprovement(anti, opt) ==
    IF anti.ExecutionTime > 0
    THEN FloatTimes100(FloatDiv(TimeDiff(anti, opt), anti.ExecutionTime))
    ELSE FloatZero

\* bench.go:151  memDiff := int64(anti.MemoryUsage) - int64(optimized.MemoryUsage)
MemDiff(anti, opt) == SubInt64(ToInt64(anti.MemoryUsage), ToInt64(opt.MemoryUsage))

\* mutant: the guard is `> 0`, as for the time
MemImprovement_ZeroFloor(anti, opt) ==
    IF anti.MemoryUsage > 0
    THEN FloatTimes100(FloatDiv(anti.MemoryUsage - opt.MemoryUsage, anti.MemoryUsage))
    ELSE FloatZero

\* bench.go:154-159  float64(memDiff) / float64(anti memory) * 100 above 1 KB
MemImprovement(anti, opt) ==
    IF anti.MemoryUsage > MemFloor
    THEN FloatTimes100(FloatDiv(MemDiff(anti, opt), anti.MemoryUsage))
    ELSE FloatZero

\* bench.go:140-159
ComputeImprovement ==
    /\ pc = "improve"
    /\ timeDiff' = TimeDiff(antiPatternResult, optimizedResult)
    /\ timeImprovement' = TimeImprovement(antiPatternResult, optimizedResult)
    /\ memDiff' = MemDiff(antiPatternResult, optimizedResult)
    /\ memImprovement' = MemImprovement(antiPatternResult, optimizedResult)
    /\ pc' = "print"
    /\ UNCHANGED <<i, r, accVars, avgVars, result, err, indexErr, retErr, output>>
    /\ UNCHANGED <<profVars, TotalAlloc, histVars>>
    /\ UNCHANGED extVars

\* bench.go:161-186  print the comparison; the loop body ends, i++
PrintComparison ==
    /\ pc = "print"
    /\ output' = Append(output, i)
    /\ trace' = Append(trace, Event("report", i, "none", "-"))
    /\ i' = i + 1
    /\ r' = 0
    /\ antiPatternTotalTime' = 0 /\ antiPatternTotalMem' = 0
    /\ optimizedTotalTime' = 0 /\ optimizedTotalMem' = 0
    /\ antiPatternResult' = NoResult /\ optimizedResult' = NoResult
    /\ timeDiff' = 0 /\ timeImprovement' = FloatZero
    /\ memDiff' = 0 /\ memImprovement' = FloatZero
    /\ indexErr' = Nil
    /\ pc' = "loop"
    /\ hist' = [v \in Variants |-> NoHist]
    /\ okSum' = NoSum
    /\ unit' = NoUnit
    /\ UNCHANGED <<result, err, retErr>>
    /\ UNCHANGED <<profVars, TotalAlloc, fnCalls, discarded>>
    /\ UNCHANGED extVars

\* bench.go:188  return nil
Return ==
    /\ pc = "loop" /\ i >= NumPairs
    /\ retErr' = Nil
    /\ pc' = "done"
    /\ UNCHANGED <<i, r, accVars, avgVars, cmpVars, result, err, indexErr, output>>
    /\ UNCHANGED <<profVars, TotalAlloc, histVars>>
    /\ UNCHANGED extVars

RunOptimizationComparison ==
    \/ PairStart
    \/ CreateIndex
    \/ WarmUpAntiPattern
    \/ WarmUpOptimized
    \/ AntiPatternInit
    \/ AntiPatternCall
    \/ AntiPatternAccumulate
    \/ AntiPatternAverage
    \/ OptimizedInit
    \/ OptimizedCall
    \/ OptimizedAccumulate
    \/ OptimizedAverage
    \/ ComputeImprovement
    \/ PrintComparison
    \/ Return

Next == RunOptimizationComparison \/ ProfileFunc

Spec == Init /\ [][Next]_vars

\* ============================================ the run subcommand
\* queries.go:30-45  the names of GetQueryTestPairs(), in registration order
TestNames ==
    << "FindAllFieldsAntiPattern", "FindWithProjectionOptimized",
       "AggregateBeforeFilterAntiPattern", "FilterBeforeAggregateOptimized",
       "FindRecentEvents", "FindHighSeverityEvents", "AggregateEventsBySeverity",
       "FindEventsWithProjection", "FindEventsByTimeRange", "ComplexAggregation",
       "FindEventsWithSorting" >>
\* the registry the run explores: the first MaxTests entries, as indices into TestNames
GetQueryTestPairs == [t \in 1 .. MaxTests |-> t]
RegisteredNames == {TestNames[t] : t \in 1 .. MaxTests}
\* a name no catalogue entry has
UnknownName == "NoSuchTest"
\* values of the --test flag
NameChoices == RegisteredNames \cup {UnknownName}
NameLists(n) == UNION {[1 .. k -> NameChoices] : k \in 0 .. n}

\* the set of names given on the command line
NamesGiven == {testsName[k] : k \in DOMAIN testsName}
\* the single --test variant was asked for one test
SingleTest == cmdVersion = "single" /\ testsName /= <<>>

\* the harness of the comparison runner is not running
HarnessOff ==
    /\ pc = "off" /\ i = 0 /\ r = 0
    /\ antiPatternTotalTime = 0 /\ antiPatternTotalMem = 0
    /\ optimizedTotalTime = 0 /\ optimizedTotalMem = 0
    /\ antiPatternResult = NoResult /\ optimizedResult = NoResult
    /\ timeDiff = 0 /\ timeImprovement = FloatZero
    /\ memDiff = 0 /\ memImprovement = FloatZero
    /\ result = NoResult /\ err = Nil /\ indexErr = Nil
    /\ retErr = "running" /\ output = <<>>
    /\ ppc = "idle" /\ name = <<>> /\ baselineAlloc = 0 /\ timing = FALSE
    /\ elapsed = 0 /\ execTime = 0 /\ fnErr = Nil /\ finalAlloc = 0
    /\ TotalAlloc = 0
    /\ trace = <<>>
    /\ fnCalls = [p \in Pairs |-> [v \in Variants |-> 0]]
    /\ unit = NoUnit
    /\ hist = [v \in Variants |-> NoHist]
    /\ okSum = NoSum
    /\ discarded = <<>>

\* the process starts `mongo-bench run` with some --test flags, in either
\* version of cmd/run (one --test string, or a list of --test names)
InitRun ==
    /\ HarnessOff
    /\ cpc = "connect"
    /\ cmdVersion \in {"single", "multi"}
    /\ testsName \in NameLists(IF cmdVersion = "single" THEN 1 ELSE MaxNames)
    /\ testPairs = <<>>
    /\ results = <<>> /\ idx = 0 /\ logged = <<>> /\ shown = <<>>
    /\ summary = <<>> /\ summarized = FALSE /\ connected = FALSE
    /\ disconnected = "-"
    /\ exited = FALSE /\ exitCode = 0 /\ fatal = "" /\ ran = <<>>
    /\ storeCall = NoStoreCall
    /\ GenOff
    /\ CatOff
    /\ LoopOff

\* log.Fatalf: the message is logged and the process exits with status 1;
\* deferred functions do not run
Fatalf(msg) ==
    /\ fatal' = msg
    /\ exited' = TRUE
    /\ exitCode' = 1
    /\ cpc' = "exit"

\* part_001:90-98, 232-240  ConnectMongoDB; a failure is fatal
Connect ==
    /\ cpc = "connect"
    /\ \E e \in {Nil, "connectErr"} :
          IF e /= Nil
          THEN Fatalf("Failed to connect to MongoDB") /\ UNCHANGED connected
          ELSE /\ connected' = TRUE
               /\ cpc' = "select"
               /\ UNCHANGED <<fatal, exited, exitCode>>
    /\ UNCHANGED <<cmdVersion, testsName, testPairs, results, idx, logged, shown,
                   summary, summarized, disconnected, ran, storeCall>>
    /\ UNCHANGED <<runnerVars, profVars, TotalAlloc, histVars>>
    /\ UNCHANGED bgVars

\* mutant: the matching pairs in the reverse of the registration order
SelectedTests_Reversed(names) ==
    LET sel == SelectSeq(GetQueryTestPairs, LAMBDA t : TestNames[t] \in names)
    IN  [k \in 1 .. Len(sel) |-> sel[Len(sel) + 1 - k]]

\* mutant: the given names are ignored
SelectedTests_All(names) == GetQueryTestPairs

\* part_001:255-266  testMap of the given names, then the registered pairs
\* whose name is in it, in registration order
SelectedTests(names) == SelectSeq(GetQueryTestPairs, LAMBDA t : TestNames[t] \in names)

\* mutant: when no given name matches, every registered test is run
SelectTests_FallBackToAll ==
    /\ cpc = "select" /\ cmdVersion = "multi"
    /\ testPairs' = IF Len(SelectedTests(NamesGiven)) = 0
                    THEN GetQueryTestPairs
                    ELSE SelectedTests(NamesGiven)
    /\ idx' = 1
    /\ cpc' = "loop"
    /\ UNCHANGED <<fatal, exited, exitCode>>
    /\ UNCHANGED <<cmdVersion, testsName, results, logged, shown,
                   summary, summarized, connected, disconnected, ran, storeCall>>
    /\ UNCHANGED <<runnerVars, profVars, TotalAlloc, histVars>>
    /\ UNCHANGED bgVars

\* part_001:252-272  the list version: select, fatal when nothing matched
SelectTests ==
    /\ cpc = "select" /\ cmdVersion = "multi"
    /\ IF Len(testsName) > 0
       THEN IF Len(SelectedTests(NamesGiven)) = 0
            THEN Fatalf("No matching tests found") /\ UNCHANGED <<testPairs, idx>>
            ELSE /\ testPairs' = SelectedTests(NamesGiven)
                 /\ idx' = 1
                 /\ cpc' = "loop"
                 /\ UNCHANGED <<fatal, exited, exitCode>>
       ELSE /\ testPairs' = GetQueryTestPairs
            /\ idx' = 1
            /\ cpc' = "loop"
            /\ UNCHANGED <<fatal, exited, exitCode>>
    /\ UNCHANGED <<cmdVersion, testsName, results, logged, shown,
                   summary, summarized, connected, disconnected, ran, storeCall>>
    /\ UNCHANGED <<runnerVars, profVars, TotalAlloc, histVars>>
    /\ UNCHANGED bgVars

\* part_001:110-117, 135-137  the one-name version: the pair of that name, or
\* "Test not found" after the search loop ran no test
FindTest ==
    /\ cpc = "select" /\ cmdVersion = "single"
    /\ IF testsName /= <<>>
       THEN IF Len(SelectedTests({testsName[1]})) = 0
            THEN Fatalf("Test not found") /\ UNCHANGED <<testPairs, idx>>
            ELSE /\ testPairs' = SelectedTests({testsName[1]})
                 /\ idx' = 1
                 /\ cpc' = "loop"
                 /\ UNCHANGED <<fatal, exited, exitCode>>
       ELSE /\ testPairs' = GetQueryTestPairs
            /\ idx' = 1
            /\ cpc' = "loop"
            /\ UNCHANGED <<fatal, exited, exitCode>>
    /\ UNCHANGED <<cmdVersion, testsName, results, logged, shown,
                   summary, summarized, connected, disconnected, ran, storeCall>>
    /\ UNCHANGED <<runnerVars, profVars, TotalAlloc, histVars>>
    /\ UNCHANGED bgVars

\* part_001:122, 154, 287  result, err := utils.ProfileFunc(pair.Name, closure)
TestCall ==
    /\ cpc = "loop" /\ idx <= Len(testPairs)
    /\ cpc' = "call"
    /\ ppc' = "gc"
    /\ name' = <<TestNames[testPairs[idx]]>>
    /\ unit' = NoUnit
    /\ UNCHANGED <<cmdVersion, testsName, testPairs, results, idx, logged, shown,
                   summary, summarized, connected, disconnected, exited, exitCode, fatal,
                   ran, storeCall>>
    /\ UNCHANGED <<runnerVars, baselineAlloc, timing, elapsed, execTime, fnErr,
                   finalAlloc, TotalAlloc, trace, fnCalls, hist, okSum, discarded>>
    /\ UNCHANGED bgVars

\* the error a store reports when a result document passes the size limit
SizeLimitErr == "BSONObjectTooLarge"
\* what the store can answer to the two operations of catalogue entry t:
\* <<outcome of Find/Aggregate, outcome of cursor.All>>; the cursor is only
\* drained when the first operation succeeded.  Only the $group/$push of
\* AggregateBeforeFilterAntiPattern builds a document that can pass the limit.
StoreAnswers(t) ==
    {<<Nil, Nil>>, <<"queryErr", "-">>, <<Nil, "cursorErr">>}
        \cup (IF TestNames[t] = "AggregateBeforeFilterAntiPattern"
              THEN {<<SizeLimitErr, "-">>, <<Nil, SizeLimitErr>>}
              ELSE {})

\* mutant: an entry that swallows a failure of cursor.All
QueryTestFunc_SwallowDrain(issue, drain) ==
    IF issue /= Nil
    THEN [err |-> issue, reported |-> FALSE]
    ELSE [err |-> Nil, reported |-> TRUE]

\* queries.go:51-75 and every other entry of the catalogue: Find/Aggregate,
\* `if err != nil { return err }`, cursor.All, `if err != nil { return err }`,
\* print the count, return nil
QueryTestFunc(issue, drain) ==
    IF issue /= Nil
    THEN [err |-> issue, reported |-> FALSE]
    ELSE IF drain /= Nil
         THEN [err |-> drain, reported |-> FALSE]
         ELSE [err |-> Nil, reported |-> TRUE]

\* profiler.go:40  err := fn(), fn being the closure of part_001:287-289,
\* `return pair.TestFunc(queryContext)`
TestInvoke ==
    /\ ppc = "fn" /\ cpc = "call"
    /\ \E d \in Durations, a \in AllocAmounts, s \in StoreAnswers(testPairs[idx]) :
          LET q == QueryTestFunc(s[1], s[2]) IN
          /\ TotalAlloc' = UAdd(TotalAlloc, a)
          /\ elapsed' = IF timing THEN elapsed + d ELSE elapsed
          /\ fnErr' = q.err
          /\ unit' = [unit EXCEPT !.runs = @ + 1, !.err = q.err, !.time = d, !.mem = a]
          /\ storeCall' = [test |-> testPairs[idx], issue |-> s[1], drain |-> s[2],
                           reported |-> q.reported]
          /\ ran' = Append(ran, [test |-> testPairs[idx], err |-> q.err,
                                  time |-> d, mem |-> a])
    /\ ppc' = "since"
    /\ UNCHANGED <<cpc, cmdVersion, testsName, testPairs, results, idx, logged, shown,
                   summary, summarized, connected, disconnected, exited, exitCode, fatal>>
    /\ UNCHANGED <<runnerVars, name, baselineAlloc, timing, execTime, finalAlloc,
                   trace, fnCalls, hist, okSum, discarded>>
    /\ UNCHANGED bgVars

\* profiler.go:50-60, and the assignment `result, err := utils.ProfileFunc(...)`
TestReturn ==
    /\ ppc = "ret" /\ cpc = "call"
    /\ result' = MakeResult(name, execTime, finalAlloc, baselineAlloc, fnErr)
    /\ err' = ReturnedErr(fnErr)
    /\ cpc' = "ret"
    /\ ppc' = "idle"
    /\ name' = <<>> /\ baselineAlloc' = 0 /\ elapsed' = 0 /\ execTime' = 0
    /\ fnErr' = Nil /\ finalAlloc' = 0
    /\ UNCHANGED <<cmdVersion, testsName, testPairs, results, idx, logged, shown,
                   summary, summarized, connected, disconnected, exited, exitCode, fatal,
                   ran, storeCall>>
    /\ UNCHANGED <<pc, i, r, accVars, avgVars, cmpVars, indexErr, retErr, output,
                   timing, TotalAlloc, histVars>>
    /\ UNCHANGED bgVars

\* mutant: the first failing test ends the loop
TestResult_StopOnError ==
    /\ cpc = "ret" /\ ~SingleTest
    /\ IF err /= Nil
       THEN /\ logged' = Append(logged, [test |-> testPairs[idx], err |-> err])
            /\ UNCHANGED results
       ELSE /\ results' = Append(results, result)
            /\ UNCHANGED logged
    /\ idx' = IF err /= Nil THEN Len(testPairs) + 1 ELSE idx + 1
    /\ result' = NoResult /\ err' = Nil
    /\ unit' = NoUnit
    /\ storeCall' = NoStoreCall
    /\ cpc' = "loop"
    /\ UNCHANGED <<cmdVersion, testsName, testPairs, shown,
                   summary, summarized, connected, disconnected, exited, exitCode, fatal, ran>>
    /\ UNCHANGED <<pc, i, r, accVars, avgVars, cmpVars, indexErr, retErr, output,
                   profVars, TotalAlloc, trace, fnCalls, hist, okSum, discarded>>
    /\ UNCHANGED bgVars

\* part_001:157-164, 290-297  log and continue, or results = append(results, result)
TestResult ==
    /\ cpc = "ret" /\ ~SingleTest
    /\ IF err /= Nil
       THEN /\ logged' = Append(logged, [test |-> testPairs[idx], err |-> err])
            /\ UNCHANGED results
       ELSE /\ results' = Append(results, result)
            /\ UNCHANGED logged
    /\ idx' = idx + 1
    /\ result' = NoResult /\ err' = Nil
    /\ unit' = NoUnit
    /\ storeCall' = NoStoreCall
    /\ cpc' = "loop"
    /\ UNCHANGED <<cmdVersion, testsName, testPairs, shown,
                   summary, summarized, connected, disconnected, exited, exitCode, fatal, ran>>
    /\ UNCHANGED <<pc, i, r, accVars, avgVars, cmpVars, indexErr, retErr, output,
                   profVars, TotalAlloc, trace, fnCalls, hist, okSum, discarded>>
    /\ UNCHANGED bgVars

\* part_001:125-131, 138  one test: log the failure or print the result; break; return
SingleTestResult ==
    /\ cpc = "ret" /\ SingleTest
    /\ IF err /= Nil
       THEN /\ logged' = Append(logged, [test |-> testPairs[idx], err |-> err])
            /\ UNCHANGED shown
       ELSE /\ shown' = Append(shown, result)
            /\ UNCHANGED logged
    /\ idx' = idx + 1
    /\ result' = NoResult /\ err' = Nil
    /\ unit' = NoUnit
    /\ storeCall' = NoStoreCall
    /\ cpc' = "return"
    /\ UNCHANGED <<cmdVersion, testsName, testPairs, results,
                   summary, summarized, connected, disconnected, exited, exitCode, fatal, ran>>
    /\ UNCHANGED <<pc, i, r, accVars, avgVars, cmpVars, indexErr, retErr, output,
                   profVars, TotalAlloc, trace, fnCalls, hist, okSum, discarded>>
    /\ UNCHANGED bgVars

\* part_001:167-173, 300-306  "Test Results Summary": every element of results
PrintSummary ==
    /\ cpc = "loop" /\ idx > Len(testPairs)
    /\ summary' = results
    /\ summarized' = TRUE
    /\ cpc' = "return"
    /\ UNCHANGED <<cmdVersion, testsName, testPairs, results, idx, logged, shown,
                   connected, disconnected, exited, exitCode, fatal, ran, storeCall>>
    /\ UNCHANGED <<runnerVars, profVars, TotalAlloc, histVars>>
    /\ UNCHANGED bgVars

\* mutant: a failing disconnect is only logged
Disconnect_LogOnly ==
    /\ cpc = "return"
    /\ \E e \in {Nil, "disconnectErr"} :
          /\ disconnected' = e
          /\ fatal' = fatal
          /\ exited' = TRUE
          /\ exitCode' = 0
          /\ cpc' = "exit"
    /\ connected' = FALSE
    /\ UNCHANGED <<cmdVersion, testsName, testPairs, results, idx, logged, shown,
                   summary, summarized, ran, storeCall>>
    /\ UNCHANGED <<runnerVars, profVars, TotalAlloc, histVars>>
    /\ UNCHANGED bgVars

\* part_001:94-98, 236-240  the deferred client.Disconnect at the return of the
\* command: a failure is fatal; otherwise main returns (part_001:25-31), status 0
Disconnect ==
    /\ cpc = "return"
    /\ \E e \in {Nil, "disconnectErr"} :
          /\ disconnected' = e
          /\ IF e /= Nil
             THEN Fatalf("Failed to disconnect from MongoDB")
             ELSE /\ exited' = TRUE
                  /\ exitCode' = 0
                  /\ cpc' = "exit"
                  /\ UNCHANGED fatal
    /\ connected' = FALSE
    /\ UNCHANGED <<cmdVersion, testsName, testPairs, results, idx, logged, shown,
                   summary, summarized, ran, storeCall>>
    /\ UNCHANGED <<runnerVars, profVars, TotalAlloc, histVars>>
    /\ UNCHANGED bgVars

runBenchmarkCmd ==
    \/ Connect
    \/ SelectTests
    \/ FindTest
    \/ TestCall
    \/ TestInvoke
    \/ TestReturn
    \/ TestResult
    \/ SingleTestResult
    \/ PrintSummary
    \/ Disconnect

NextRun ==
    \/ runBenchmarkCmd
    \/ ProfileGC
    \/ ProfileReadBaseline
    \/ ProfileStart
    \/ ProfileSince
    \/ ProfileReadFinal

SpecRun == InitRun /\ [][NextRun]_vars

\* ===================================== the generator's batch functions
\* generator.go:124  numEvents := 40000, scaled down to the bound MaxEvents
numEvents == MaxEvents
\* part_002:115  rand.Intn(4): 0 to 3 events
EventCountLimit == 4
EventCounts == {n \in 0 .. (EventCountLimit - 1) : n <= MaxEvents}

\* a batch function is called: GenerateAndInsertEvents ("batch", generator.go)
\* or generateAndInsertEvents ("tick", cmd/generate)
InitGen ==
    /\ HarnessOff
    /\ CmdOff
    /\ CatOff
    /\ LoopOff
    /\ gpc = "start"
    /\ genFn \in {"batch", "tick"}
    /\ eventCount = 0 /\ gi = 0 /\ wg = 0
    /\ gor = [g \in Goroutines |-> "unborn"]
    /\ attempts = [g \in Goroutines |-> 0]
    /\ insertErr = [g \in Goroutines |-> "-"]

genFrame == <<runnerVars, profVars, TotalAlloc, histVars, cmdVars, catVars, loopVars>>

\* generator.go:124-131  numEvents, var wg, i := 0
BatchStart ==
    /\ gpc = "start" /\ genFn = "batch"
    /\ eventCount' = numEvents
    /\ gi' = 0
    /\ gpc' = "loop"
    /\ UNCHANGED <<genFn, wg, gor, attempts, insertErr>>
    /\ UNCHANGED genFrame

\* generator.go:131-132  i < numEvents: wg.Add(1)
BatchAdd ==
    /\ gpc = "loop" /\ genFn = "batch" /\ gi < eventCount
    /\ wg' = wg + 1
    /\ gpc' = "go"
    /\ UNCHANGED <<genFn, eventCount, gi, gor, attempts, insertErr>>
    /\ UNCHANGED genFrame

\* generator.go:133-137  go InsertEvent(ctx, collection, event, &wg); i++
BatchGo ==
    /\ gpc = "go" /\ genFn = "batch"
    /\ gor' = [gor EXCEPT ![gi + 1] = "ready"]
    /\ gi' = gi + 1
    /\ gpc' = "loop"
    /\ UNCHANGED <<genFn, eventCount, wg, attempts, insertErr>>
    /\ UNCHANGED genFrame

\* mutant: a wait that does not look at the counter
WaitReady_Always(c) == TRUE

\* sync.WaitGroup.Wait blocks until the counter is zero
WaitReady(c) == c = 0

\* generator.go:140-143  wg.Wait(); return numEvents
BatchWait ==
    /\ gpc = "loop" /\ genFn = "batch" /\ gi >= eventCount
    /\ WaitReady(wg)
    /\ gpc' = "done"
    /\ UNCHANGED <<genFn, eventCount, gi, wg, gor, attempts, insertErr>>
    /\ UNCHANGED genFrame

\* part_002:115-119  eventCount := rand.Intn(4); nothing to do for 0
TickStart ==
    /\ gpc = "start" /\ genFn = "tick"
    /\ \E n \in EventCounts :
          /\ eventCount' = n
          /\ gpc' = IF n = 0 THEN "done" ELSE "add"
    /\ gi' = 0
    /\ UNCHANGED <<genFn, wg, gor, attempts, insertErr>>
    /\ UNCHANGED genFrame

\* part_002:124-125  var wg; wg.Add(eventCount)
TickAdd ==
    /\ gpc = "add"
    /\ wg' = wg + eventCount
    /\ gpc' = "loop"
    /\ UNCHANGED <<genFn, eventCount, gi, gor, attempts, insertErr>>
    /\ UNCHANGED genFrame

\* part_002:128-145  i < eventCount: go func(evt) {...}(e); i++
TickGo ==
    /\ gpc = "loop" /\ genFn = "tick" /\ gi < eventCount
    /\ gor' = [gor EXCEPT ![gi + 1] = "ready"]
    /\ gi' = gi + 1
    /\ UNCHANGED <<gpc, genFn, eventCount, wg, attempts, insertErr>>
    /\ UNCHANGED genFrame

\* part_002:148-149  wg.Wait(); return
TickWait ==
    /\ gpc = "loop" /\ genFn = "tick" /\ gi >= eventCount
    /\ WaitReady(wg)
    /\ gpc' = "done"
    /\ UNCHANGED <<genFn, eventCount, gi, wg, gor, attempts, insertErr>>
    /\ UNCHANGED genFrame

\* mutant: a failed insert is tried again
InsertEvent_Retry(g) ==
    /\ gor[g] = "ready"
    /\ \E e \in {Nil, "insertErr"} :
          /\ insertErr' = [insertErr EXCEPT ![g] = e]
          /\ gor' = [gor EXCEPT ![g] = IF e = Nil THEN "inserted" ELSE "ready"]
    /\ attempts' = [attempts EXCEPT ![g] = @ + 1]
    /\ UNCHANGED <<gpc, genFn, eventCount, gi, wg>>
    /\ UNCHANGED genFrame

\* generator.go:111-119, part_002:135-138  the goroutine's one InsertOne; a
\* failure is logged
InsertEvent(g) ==
    /\ gor[g] = "ready"
    /\ \E e \in {Nil, "insertErr"} :
          insertErr' = [insertErr EXCEPT ![g] = e]
    /\ attempts' = [attempts EXCEPT ![g] = @ + 1]
    /\ gor' = [gor EXCEPT ![g] = "inserted"]
    /\ UNCHANGED <<gpc, genFn, eventCount, gi, wg>>
    /\ UNCHANGED genFrame

\* generator.go:109, part_002:134  defer wg.Done(): the goroutine ends
InsertDone(g) ==
    /\ gor[g] = "inserted"
    /\ wg' = wg - 1
    /\ gor' = [gor EXCEPT ![g] = "done"]
    /\ UNCHANGED <<gpc, genFn, eventCount, gi, attempts, insertErr>>
    /\ UNCHANGED genFrame

GenerateAndInsertEvents ==
    \/ BatchStart
    \/ BatchAdd
    \/ BatchGo
    \/ BatchWait

generateAndInsertEvents_tick ==
    \/ TickStart
    \/ TickAdd
    \/ TickGo
    \/ TickWait

NextGen ==
    \/ GenerateAndInsertEvents
    \/ generateAndInsertEvents_tick
    \/ \E g \in Goroutines : InsertEvent(g)
    \/ \E g \in Goroutines : InsertDone(g)

SpecGen == InitGen /\ [][NextGen]_vars

\* ============================================== the projection pair
\* queries.go:56, 83  "severity.level": {"$gte": 3}
SevThreshold == 3
Levels == {SevThreshold - 1, SevThreshold}
\* timestamps around the cut-off "now - 24h" of the calls
Timestamps == 0 .. MaxTicks
DocIds == 1 .. MaxDocs
\* the fields of a stored event the model keeps, and the fields of the projection
AllFields == {"_id", "eventType", "description", "severity", "sourceSystem", "timestamp"}
ProjectedFields == {"eventType", "severity", "timestamp", "sourceSystem"}

\* a store with some events; the clock shows a time one day after timestamp 0.
\* Either the two functions of the projection pair are called one after the
\* other, or one entry of the catalogue is called and then called again.
InitCat ==
    /\ HarnessOff
    /\ CmdOff
    /\ GenOff
    /\ LoopOff
    /\ qpc \in {"anti", "entry"}
    /\ store \in [DocIds -> [level : Levels, timestamp : Timestamps]]
    /\ now = Day
    /\ found = [v \in Variants |-> NotCalled]
    /\ calls = <<>>

catFrame == <<runnerVars, profVars, TotalAlloc, histVars, cmdVars, genVars, loopVars>>

\* time passes; the store does not change
Tick ==
    /\ qpc \in {"anti", "opt", "entry", "again"}
    /\ now < Day + MaxTicks
    /\ now' = now + 1
    /\ UNCHANGED <<qpc, store, found, calls>>
    /\ UNCHANGED catFrame

\* mutant: a filter on the timestamp only
Matching_AnyLevel(clock) == {d \in DOMAIN store : store[d].timestamp >= clock - Day}

\* queries.go:55-60, 82-87  the filter of both functions, evaluated by the
\* store: severity.level >= 3 and timestamp >= time.Now().Add(-24 * time.Hour)
Matching(clock) ==
    {d \in DOMAIN store :
        store[d].level >= SevThreshold /\ store[d].timestamp >= clock - Day}

\* the outcome of one call: the documents decoded and the count printed
Found(q, ids, fields) ==
    [called |-> TRUE, at |-> now, err |-> q.err,
     ids |-> IF q.reported THEN ids ELSE {},
     count |-> IF q.reported THEN Cardinality(ids) ELSE 0,
     fields |-> IF q.reported THEN fields ELSE {}]

\* queries.go:51-75  FindAllFieldsAntiPattern: whole documents
FindAllFieldsAntiPattern ==
    /\ qpc = "anti"
    /\ \E s \in StoreAnswers(1) :
          found' = [found EXCEPT !["anti"] =
                       Found(QueryTestFunc(s[1], s[2]), Matching(now), AllFields)]
    /\ qpc' = "opt"
    /\ UNCHANGED <<store, now, calls>>
    /\ UNCHANGED catFrame

\* queries.go:78-111  FindWithProjectionOptimized: the same filter, four fields
FindWithProjectionOptimized ==
    /\ qpc = "opt"
    /\ \E s \in StoreAnswers(2) :
          found' = [found EXCEPT !["opt"] =
                       Found(QueryTestFunc(s[1], s[2]), Matching(now), ProjectedFields)]
    /\ qpc' = "done"
    /\ UNCHANGED <<store, now, calls>>
    /\ UNCHANGED catFrame

\* the entries of the catalogue that are called twice
Repeated ==
    {"FindAllFieldsAntiPattern", "FindRecentEvents", "FindHighSeverityEvents",
     "FindEventsByTimeRange"}

\* mutant: every entry filters on the last 24 hours
Selects_LastDay(e, clock) == Matching(clock)

\* the documents the filter of entry e selects when it is evaluated at time
\* `clock`; the limit of 10 documents is above the size of the store
\*   queries.go:55-60    level >= 3, timestamp >= time.Now().Add(-24h)
\*   queries.go:186      bson.M{}
\*   queries.go:213-215  level >= 3
\*   queries.go:328-337  end := time.Now(); start := end.Add(-24h);
\*                       timestamp >= start, timestamp <= end
Selects(e, clock) ==
    CASE e = "FindAllFieldsAntiPattern" -> Matching(clock)
      [] e = "FindRecentEvents" -> DOMAIN store
      [] e = "FindHighSeverityEvents" ->
             {d \in DOMAIN store : store[d].level >= SevThreshold}
      [] e = "FindEventsByTimeRange" ->
             {d \in DOMAIN store :
                 store[d].timestamp >= clock - Day /\ store[d].timestamp <= clock}

\* one call of entry e: Find, cursor.All, the count printed; nothing is written
\* to the store
InvokeEntry(e, next) ==
    /\ \E s \in StoreAnswers(1) :
          calls' = Append(calls,
                     [entry |-> e] @@
                     Found(QueryTestFunc(s[1], s[2]), Selects(e, now), AllFields))
    /\ qpc' = next
    /\ UNCHANGED <<store, now, found>>
    /\ UNCHANGED catFrame

\* an entry of the catalogue is called
EntryCall ==
    /\ qpc = "entry"
    /\ \E e \in Repeated : InvokeEntry(e, "again")

\* the same entry is called again
EntryCallAgain ==
    /\ qpc = "again"
    /\ InvokeEntry(calls[1].entry, "done")

NextCat ==
    \/ Tick
    \/ FindAllFieldsAntiPattern
    \/ FindWithProjectionOptimized
    \/ EntryCall
    \/ EntryCallAgain

SpecCat == InitCat /\ [][NextCat]_vars

\* ============================================== the generate command
\* part_002:44, 46  the flags --duration (minutes, 0 for infinite) and
\* --interval (seconds)
Durations_min == 0 .. MaxMinutes
Intervals == 1 .. MaxInterval
\* the time a batch takes: up to three inserts, each waited for
BatchTimes == 0 .. MaxBatchTime
\* the time up to which a run without a duration is followed
Horizon == MaxMinutes * MinuteSecs + MaxInterval + MaxBatchTime
\* a run without a duration is followed up to the horizon
Followed == duration = 0 => timeNow < Horizon

\* the command is connected to the store and about to produce its first batch
InitGenerate ==
    /\ HarnessOff
    /\ CmdOff
    /\ GenOff
    /\ CatOff
    /\ lpc = "startup"
    /\ duration \in Durations_min
    /\ interval \in Intervals
    /\ timeNow = 0 /\ endTime = 0 /\ nextTick = 0 /\ tickerC = 0
    /\ batches = 0 /\ ticks = 0

loopFrame == <<runnerVars, profVars, TotalAlloc, histVars, cmdVars, genVars, catVars>>

\* the ticker while the loop is busy until time t: a tick that is due is put
\* into the channel, which holds one tick; the ticks after it are dropped
TickerUntil(t) ==
    IF nextTick <= t
    THEN /\ tickerC' = 1
         /\ nextTick' = nextTick + interval * (((t - nextTick) \div interval) + 1)
    ELSE UNCHANGED <<tickerC, nextTick>>

\* part_002:83  generateAndInsertEvents(...) right at startup, before the end
\* time is computed and the ticker is made
StartupBatch ==
    /\ lpc = "startup"
    /\ \E b \in BatchTimes : timeNow' = timeNow + b
    /\ batches' = batches + 1
    /\ lpc' = "setup"
    /\ UNCHANGED <<duration, interval, endTime, nextTick, tickerC, ticks>>
    /\ UNCHANGED loopFrame

\* part_002:86-95  endTime = time.Now().Add(duration * time.Minute) if
\* duration > 0; ticker := time.NewTicker(interval * time.Second)
ComputeEndTime ==
    /\ lpc = "setup"
    /\ endTime' = IF duration > 0 THEN timeNow + duration * MinuteSecs ELSE endTime
    /\ nextTick' = timeNow + interval
    /\ lpc' = "select"
    /\ UNCHANGED <<duration, interval, timeNow, tickerC, batches, ticks>>
    /\ UNCHANGED loopFrame

\* part_002:99-100  the loop blocks in select until the ticker sends the next
\* tick
TickerFire ==
    /\ lpc = "select" /\ tickerC = 0
    /\ Followed
    /\ timeNow' = nextTick
    /\ tickerC' = 1
    /\ nextTick' = nextTick + interval
    /\ UNCHANGED <<lpc, duration, interval, endTime, batches, ticks>>
    /\ UNCHANGED loopFrame

\* mutant: the loop also stops at a tick at the end time
ShouldStop_AtEndTime(d, t, end) == d > 0 /\ t >= end

\* part_002:102  duration > 0 && time.Now().After(endTime)
ShouldStop(d, t, end) == d > 0 /\ t > end

\* part_002:100-105  case <-ticker.C: return when the duration is over
OnTick ==
    /\ lpc = "select" /\ tickerC = 1
    /\ Followed
    /\ tickerC' = 0
    /\ ticks' = ticks + 1
    /\ lpc' = IF ShouldStop(duration, timeNow, endTime) THEN "stopped" ELSE "batch"
    /\ UNCHANGED <<duration, interval, timeNow, endTime, nextTick, batches>>
    /\ UNCHANGED loopFrame

\* part_002:107-108  generateAndInsertEvents(...), then the next round of the
\* loop; the ticker keeps running while the batch is produced
TickBatch ==
    /\ lpc = "batch"
    /\ \E b \in BatchTimes :
          /\ timeNow' = timeNow + b
          /\ TickerUntil(timeNow + b)
    /\ batches' = batches + 1
    /\ lpc' = "select"
    /\ UNCHANGED <<duration, interval, endTime, ticks>>
    /\ UNCHANGED loopFrame

NextGenerate ==
    \/ StartupBatch
    \/ ComputeEndTime
    \/ TickerFire
    \/ OnTick
    \/ TickBatch

SpecGenerate == InitGenerate /\ [][NextGenerate]_vars

\* the ticker keeps sending ticks, a batch returns (every insert is answered
\* or fails), and the loop's own statements are executed
FairSpecGenerate == SpecGenerate /\ WF_vars(NextGenerate)

\* ================================================= all the programs
InitAll == Init \/ InitRun \/ InitGen \/ InitCat \/ InitGenerate

NextAll == Next \/ NextRun \/ NextGen \/ NextCat \/ NextGenerate

SpecAll == InitAll /\ [][NextAll]_vars

\* ===================================================== properties
\* the variant whose measurement loop has just ended, and its averaged result
Averaged(v) == IF v = "anti" THEN antiPatternResult ELSE optimizedResult
Totals(v) ==
    IF v = "anti" THEN [time |-> antiPatternTotalTime, mem |-> antiPatternTotalMem]
                  ELSE [time |-> optimizedTotalTime, mem |-> optimizedTotalMem]
\* control is right behind the averaging of variant v
JustAveraged(v) == pc = (IF v = "anti" THEN "optInit" ELSE "improve")
\* control is inside the measurement loop of variant v, at its head
AtLoopHead(v) == pc = (IF v = "anti" THEN "antiLoop" ELSE "optLoop")

\* C1: the averaged time and memory of each variant of each pair are the sums
\* over its successful repetitions divided (integer division) by the repetition
\* count 3, whatever repetitions failed; the divisor is not the success count.
C1_AverageOverRepetitions ==
    \A v \in Variants :
        JustAveraged(v) =>
            /\ Averaged(v).ExecutionTime = okSum.time \div testRepetitions
            /\ Averaged(v).MemoryUsage = okSum.mem \div testRepetitions
            /\ hist[v].ok + hist[v].failed = testRepetitions

\* C1 witness: a variant with one failed and two successful repetitions whose
\* sum divided by 3 differs from the sum divided by the 2 successes
C1_Witness ==
    \E v \in Variants :
        /\ JustAveraged(v)
        /\ hist[v].ok = 2 /\ hist[v].failed = 1
        /\ okSum.time \div 3 /= okSum.time \div 2
        /\ okSum.mem \div 3 /= okSum.mem \div 2
        /\ Averaged(v).ExecutionTime > 0

\* C2: each measurement loop calls ProfileFunc exactly 3 times whatever the
\* outcomes; a failed repetition adds nothing to the accumulators (they hold the
\* sums of the successful repetitions only) and later repetitions still run.
C2_ExactlyRProfiles ==
    \A v \in Variants :
        /\ hist[v].calls <= testRepetitions
        /\ JustAveraged(v) => hist[v].calls = testRepetitions
        /\ (AtLoopHead(v) \/ JustAveraged(v)) =>
              /\ Totals(v).time = okSum.time
              /\ Totals(v).mem = okSum.mem
              /\ hist[v].calls = r
              /\ hist[v].ok + hist[v].failed = r

\* C2 witness: the first two repetitions of a loop failed and the third one ran
C2_Witness ==
    \E v \in Variants :
        /\ pc = (IF v = "anti" THEN "antiCall" ELSE "optCall")
        /\ ppc = "since"
        /\ hist[v].calls = 3 /\ hist[v].failed = 2 /\ hist[v].ok = 1
        /\ r = 2

\* C3: the time improvement is (antiTime - optTime) / antiTime * 100 when the
\* averaged anti-pattern time is positive and exactly 0 when it is 0, for every
\* optimized time; it is never the result of a division by zero.
C3_TimeImprovement ==
    pc = "print" =>
        /\ timeImprovement.kind = "fin"
        /\ antiPatternResult.ExecutionTime > 0 =>
              FloatEq(timeImprovement,
                      FloatRat((antiPatternResult.ExecutionTime
                                  - optimizedResult.ExecutionTime) * 100,
                               antiPatternResult.ExecutionTime))
        /\ antiPatternResult.ExecutionTime = 0 => FloatEq(timeImprovement, FloatZero)

\* C3 witness: a report with anti-pattern time 0 and a positive optimized time
C3_Witness ==
    /\ pc = "print"
    /\ antiPatternResult.ExecutionTime = 0
    /\ optimizedResult.ExecutionTime > 0

\* C4: the memory improvement is exactly 0 whenever the averaged anti-pattern
\* memory is at most 1024 bytes, whatever the optimized memory (also a larger
\* one); it is (antiMem - optMem) / antiMem * 100 only above 1024 bytes.
C4_MemImprovement ==
    pc = "print" =>
        /\ memImprovement.kind = "fin"
        /\ antiPatternResult.MemoryUsage <= MemFloor => FloatEq(memImprovement, FloatZero)
        /\ antiPatternResult.MemoryUsage > MemFloor =>
              FloatEq(memImprovement,
                      FloatRat((antiPatternResult.MemoryUsage
                                  - optimizedResult.MemoryUsage) * 100,
                               antiPatternResult.MemoryUsage))

\* C4 witness: a report with a nonzero anti-pattern memory of at most 1024
\* bytes and a larger optimized memory (negative difference)
C4_Witness ==
    /\ pc = "print"
    /\ antiPatternResult.MemoryUsage > 0
    /\ antiPatternResult.MemoryUsage <= MemFloor
    /\ optimizedResult.MemoryUsage > antiPatternResult.MemoryUsage
    /\ memDiff < 0

\* ------------------------------------------------ the trace, read back
Positions == 1 .. Len(trace)
IsIndex(e) == e.ev = "index"
IsWarmUp(e) == e.ev = "call" /\ ~e.window
IsMeasure(e) == e.ev = "call" /\ e.window
IsReport(e) == e.ev = "report"
\* Setup, WarmUp, MeasureAntiPattern, MeasureOptimized, Report
Phase(e) ==
    CASE IsIndex(e) -> 0
      [] IsWarmUp(e) -> 1
      [] IsMeasure(e) /\ e.variant = "anti" -> 2
      [] IsMeasure(e) /\ e.variant = "opt" -> 3
      [] IsReport(e) -> 4
Rank(e) == e.pair * 5 + Phase(e)
\* positions up to k of the measured calls / warm-up calls of variant v of pair p
Measurements(p, v, k) ==
    {j \in 1 .. k : IsMeasure(trace[j]) /\ trace[j].pair = p /\ trace[j].variant = v}
WarmUps(p, v) ==
    {j \in Positions : IsWarmUp(trace[j]) /\ trace[j].pair = p /\ trace[j].variant = v}
IndexEvents == {j \in Positions : IsIndex(trace[j])}
Reports(p) == {j \in Positions : IsReport(trace[j]) /\ trace[j].pair = p}
\* control is past the setup and warm-up of the pair in progress
PastWarmUp == pc \notin {"loop", "createIndex", "warmAnti", "warmOpt", "done"}

\* C5: the phases of a pair come in the order Setup, WarmUp, MeasureAntiPattern
\* x3, MeasureOptimized x3, Report: never an anti-pattern measurement after an
\* optimized one of the same pair, a report only after all 6 measurements of
\* its pair, and nothing of pair k+1 before the report of pair k.
C5_PhaseOrder ==
    /\ Len(trace) > 0 => trace[1].pair = 0
    /\ \A k \in 2 .. Len(trace) :
          /\ Rank(trace[k - 1]) <= Rank(trace[k])
          /\ trace[k].pair /= trace[k - 1].pair =>
                IsReport(trace[k - 1]) /\ trace[k].pair = trace[k - 1].pair + 1
          /\ IsReport(trace[k]) =>
                \A v \in Variants :
                    Cardinality(Measurements(trace[k].pair, v, k)) = testRepetitions
    /\ Len(output) = (IF pc = "done" THEN NumPairs ELSE i)
    /\ \A k \in 1 .. Len(output) : output[k] = k - 1

\* C5 witness: the run is over, all three pairs went through all their phases
C5_Witness ==
    /\ pc = "done"
    /\ output = <<0, 1, 2>>
    /\ Len(trace) = NumPairs * (2 * testRepetitions + 1) + 3
    /\ trace[1].ev = "call" /\ trace[Len(trace)].ev = "report"

\* C6: index creation is attempted for the index pair only, exactly once,
\* before any warm-up or measured call of that pair and outside ProfileFunc;
\* when it fails the run goes on: warm-up, the 6 measurements and the report
\* of that pair take place and the run returns nil.
C6_IndexSetup ==
    /\ \A k \in IndexEvents :
          /\ trace[k].pair = IndexPair
          /\ ~trace[k].window
          /\ \A j \in 1 .. (k - 1) : trace[j].pair /= IndexPair
    /\ Cardinality(IndexEvents) =
          (IF i > IndexPair \/ (i = IndexPair /\ pc \notin {"loop", "createIndex"})
           THEN 1 ELSE 0)
    /\ pc = "done" =>
          /\ retErr = Nil
          /\ \A v \in Variants :
                /\ Cardinality(WarmUps(IndexPair, v)) = 1
                /\ Cardinality(Measurements(IndexPair, v, Len(trace))) = testRepetitions
          /\ Cardinality(Reports(IndexPair)) = 1

\* C6 witness: the run is over and its index creation had failed
C6_Witness ==
    /\ pc = "done"
    /\ \E k \in IndexEvents : trace[k].outcome = "failed"
    /\ Cardinality(Reports(IndexPair)) = 1

\* C7: warm-up happens for the index pair only, each variant once, before the
\* first measured repetition and outside ProfileFunc; nothing of it reaches the
\* accumulators and its error does not stop the run; so the functions of the
\* index pair are called 4 times each and those of the other pairs 3 times.
C7_WarmUp ==
    /\ \A k \in Positions :
          IsWarmUp(trace[k]) =>
              /\ trace[k].pair = IndexPair
              /\ \A j \in 1 .. (k - 1) :
                    /\ ~IsMeasure(trace[j]) \/ trace[j].pair /= IndexPair
                    /\ ~IsWarmUp(trace[j]) \/ trace[j].variant /= trace[k].variant
    /\ i = IndexPair /\ PastWarmUp =>
          \A v \in Variants : Cardinality(WarmUps(IndexPair, v)) = 1
    /\ pc = "antiLoop" /\ r = 0 =>
          /\ antiPatternTotalTime = 0 /\ antiPatternTotalMem = 0
          /\ okSum = NoSum
          /\ \A v \in Variants : hist[v] = NoHist
    /\ pc = "done" =>
          /\ retErr = Nil
          /\ \A p \in Pairs, v \in Variants :
                fnCalls[p][v] = (IF p = IndexPair THEN testRepetitions + 1
                                                  ELSE testRepetitions)

\* C7 witness: both warm-up calls of the index pair have failed and the run
\* is at the declaration of the anti-pattern accumulators
C7_Witness ==
    /\ pc = "antiInit" /\ i = IndexPair
    /\ Len(discarded) = 2
    /\ \A k \in 1 .. 2 : discarded[k] \in StoreErrors
    /\ \A v \in Variants : fnCalls[IndexPair][v] = 1
    /\ fnCalls[0]["anti"] = testRepetitions

\* the comparison about to be printed is the one of the accumulated totals
ReportFromTotals ==
    /\ antiPatternResult = ProfileResult(AntiPatternName(i),
                                         antiPatternTotalTime \div testRepetitions,
                                         antiPatternTotalMem \div testRepetitions)
    /\ optimizedResult = ProfileResult(OptimizedName(i),
                                       optimizedTotalTime \div testRepetitions,
                                       optimizedTotalMem \div testRepetitions)
    /\ timeImprovement.kind = "fin" /\ memImprovement.kind = "fin"
AllReported == pc = "done" /\ output = <<0, 1, 2>> /\ retErr = Nil

\* the calling thread keeps running until the function returns: every step is
\* a statement of straight-line code, and each call into the store or the
\* runtime returns (with a result or an error)
FairSpec == Spec /\ WF_vars(Next)

\* C8: no measurement error is fatal: whatever repetitions fail, the run
\* eventually has printed the comparison of each of the three pairs, each
\* computed from the totals accumulated, and returns nil.
C8_AlwaysReports ==
    /\ [](pc = "print" => ReportFromTotals)
    /\ [](pc = "done" => AllReported)
    /\ <>AllReported

\* C8 witness: the comparison of the last pair is about to be printed after
\* all 6 of its repetitions failed, the two earlier pairs being reported
C8_Witness ==
    /\ pc = "print" /\ i = NumPairs - 1 /\ output = <<0, 1>>
    /\ \A v \in Variants : hist[v].failed = testRepetitions
    /\ ReportFromTotals

\* C9: ProfileFunc runs the unit of work exactly once per call and returns its
\* error unchanged together with a ProfileResult that carries the given name,
\* the measured time and the memory delta, populated alike on success and failure.
Returned == pc \in {"antiRet", "optRet"}
C9_ProfileFuncReturn ==
    /\ ppc \in {"gc", "baseline", "start", "fn"} => unit.runs = 0
    /\ ppc \in {"since", "final", "ret"} => unit.runs = 1
    /\ Returned =>
          /\ unit.runs = 1
          /\ err = unit.err
          /\ result.Name = RunName(IF pc = "antiRet" THEN AntiPatternName(i)
                                                     ELSE OptimizedName(i), r + 1)
          /\ result.ExecutionTime = unit.time
          /\ result.MemoryUsage = unit.mem

\* C9 witness: a call returned an error together with a nonzero time and memory
C9_Witness ==
    /\ Returned
    /\ err = "cursorErr"
    /\ result.ExecutionTime > 0
    /\ result.MemoryUsage > 0

\* C10 as stated: the reported memory is postAlloc - baselineAlloc clamped to
\* at least 0, so it is 0 whenever the final counter is below the baseline.
C10_Clamped ==
    Returned =>
        result.MemoryUsage =
            (IF unit.final < unit.baseline THEN 0 ELSE unit.final - unit.baseline)

\* C10 amended: the reported memory is the unsigned difference postAlloc -
\* baselineAlloc modulo the word size, with no clamping: when the final counter
\* is below the baseline (the cumulative counter wrapped) it is the wrapped
\* difference postAlloc - baselineAlloc + 2^width, a positive value and not 0.
C10_WrappedDifference ==
    Returned =>
        /\ result.MemoryUsage = (unit.final - unit.baseline) % UintMod
        /\ unit.final < unit.baseline =>
              /\ result.MemoryUsage = unit.final - unit.baseline + UintMod
              /\ result.MemoryUsage > 0

\* C10 witness: a call returned whose final counter was below its baseline
C10_Witness ==
    /\ Returned
    /\ unit.final < unit.baseline
    /\ result.MemoryUsage = AllocChunk

\* ------------------------------------------ the run subcommand: properties
\* how often the test function of registered test t has been invoked
TimesRun(t) == Cardinality({k \in DOMAIN ran : ran[k].test = t})
\* the tests invoked so far, in invocation order
TestsRun == [k \in DOMAIN ran |-> ran[k].test]
\* the invocations that returned no error, in invocation order
OkRan == SelectSeq(ran, LAMBDA x : x.err = Nil)
FailedRan == SelectSeq(ran, LAMBDA x : x.err /= Nil)
\* the command function has reached its return: the test loop is over
LoopOver == cpc = "return" \/ (cpc = "exit" /\ disconnected /= "-")
\* control is between two tests (no ProfileFunc call pending or unhandled)
BetweenTests == cpc \in {"loop", "return", "exit"}
\* some given --test name is not a registered test name
SomeNameUnknown == NamesGiven \ RegisteredNames /= {}
NoNameKnown == testsName /= <<>> /\ NamesGiven \cap RegisteredNames = {}
FatalSelect == {"No matching tests found", "Test not found"}

\* C11 as stated: whenever at least one of the given --test names is not a
\* registered test name, no test function is ever executed and the command
\* ends with a fatal error and exit status 1, also when the given names
\* contain registered names as well.
C11_UnknownNameIsFatal ==
    SomeNameUnknown =>
        /\ ran = <<>>
        /\ exited => exitCode = 1 /\ fatal /= ""

\* C11 amended: when --test names are given and none of them is a registered
\* test name, no test is selected or executed and the command ends with a
\* fatal error and exit status 1, in both versions of the command.  When at
\* least one given name is registered, the names that are not registered are
\* ignored: the registered tests named are selected and no fatal error about
\* test names is raised.
C11_NoMatchIsFatal ==
    /\ NoNameKnown =>
          /\ ran = <<>> /\ testPairs = <<>>
          /\ cpc \in {"connect", "select", "exit"}
          /\ cpc = "exit" =>
                /\ exited /\ exitCode = 1
                /\ fatal \in FatalSelect \cup {"Failed to connect to MongoDB"}
    /\ (testsName /= <<>> /\ ~NoNameKnown) =>
          /\ fatal \notin FatalSelect
          /\ (connected \/ disconnected /= "-") /\ cpc /= "select" =>
                /\ testPairs = SelectedTests(NamesGiven)
                /\ testPairs /= <<>>

\* C11 witness: two names were given, none of them registered, and the command
\* has ended with the fatal error of the selection
C11_Witness ==
    /\ cpc = "exit"
    /\ cmdVersion = "multi"
    /\ Len(testsName) = 2
    /\ fatal = "No matching tests found"
    /\ exitCode = 1
    /\ ran = <<>>

\* C12: when the test loop is over, every registered test has been profiled
\* exactly once if no --test name was given, and otherwise exactly the
\* registered tests whose name was given have been profiled, once each, and no
\* other test; at no time has a test been profiled more often than that.
C12_ProfilesSelectedTests ==
    \A t \in 1 .. MaxTests :
        LET wanted == IF testsName = <<>> \/ TestNames[t] \in NamesGiven THEN 1 ELSE 0
        IN  /\ TimesRun(t) <= wanted
            /\ LoopOver => TimesRun(t) = wanted

\* C12 witness: two registered names were given, in the reverse of the
\* registration order; two tests were profiled and the loop is over
C12_Witness ==
    /\ cpc = "return"
    /\ cmdVersion = "multi"
    /\ testsName = <<TestNames[3], TestNames[1]>>
    /\ Len(ran) = 2
    /\ TimesRun(2) = 0

\* the ProfileResult the profiler returns for invocation x of a test
ResultOf(x) == ProfileResult(<<TestNames[x.test]>>, x.time, x.mem)

\* C13: (list of tests, both versions) a test whose query returned an error is
\* logged and skipped and the loop goes on: between two tests results holds
\* exactly the ProfileResults of the tests that returned no error, in execution
\* order, and the log the failed ones; when the summary is printed every
\* selected test has been executed and the summary is that list of results.
C13_FailedTestSkipped ==
    ~SingleTest =>
        /\ BetweenTests =>
              /\ results = [k \in DOMAIN OkRan |-> ResultOf(OkRan[k])]
              /\ logged = [k \in DOMAIN FailedRan |->
                              [test |-> FailedRan[k].test, err |-> FailedRan[k].err]]
        /\ summarized =>
              /\ summary = results
              /\ TestsRun = testPairs
        /\ ~summarized => summary = <<>>

\* C13 witness: the summary of a run of three tests whose first test failed and
\* whose later tests succeeded
C13_Witness ==
    /\ summarized
    /\ Len(ran) = 3
    /\ ran[1].err /= Nil /\ ran[2].err = Nil /\ ran[3].err = Nil
    /\ Len(summary) = 2
    /\ summary[1].ExecutionTime > 0

\* C14 as stated: a nonzero exit only for a connection failure or an unknown
\* test name; a connection failure before any test; every run that connected
\* and selected at least one test exits 0, a failing disconnect included.
C14_ExitZeroOnceSelected ==
    exited =>
        /\ exitCode /= 0 =>
              fatal \in {"Failed to connect to MongoDB"} \cup FatalSelect
        /\ fatal = "Failed to connect to MongoDB" => ran = <<>>
        /\ testPairs /= <<>> => exitCode = 0

\* C14 amended: the exit status is 1 exactly for a failed connection (before
\* any test is selected or executed), for given names none of which is
\* registered (no test executed), or for a failing disconnect after the test
\* loop; every run that connected, selected at least one test and disconnected
\* cleanly exits 0, whatever number of its queries failed.
C14_ExitCodes ==
    exited =>
        /\ exitCode \in {0, 1}
        /\ exitCode = 1 <=> fatal /= ""
        /\ fatal = "Failed to connect to MongoDB" <=> ~connected /\ disconnected = "-"
        /\ fatal = "Failed to connect to MongoDB" => ran = <<>> /\ testPairs = <<>>
        /\ fatal \in FatalSelect <=> connected /\ NoNameKnown
        /\ fatal \in FatalSelect => ran = <<>> /\ testPairs = <<>>
        /\ fatal = "Failed to disconnect from MongoDB" <=> disconnected = "disconnectErr"
        /\ disconnected /= "-" => testPairs /= <<>> /\ TestsRun = testPairs
        /\ testPairs /= <<>> /\ disconnected = Nil => exitCode = 0

\* C14 witness: a run that executed two tests, one of them failing, and whose
\* disconnect then failed
C14_Witness ==
    /\ exited
    /\ disconnected = "disconnectErr"
    /\ Len(ran) = 2
    /\ ran[1].err /= Nil /\ ran[2].err = Nil
    /\ exitCode = 1

\* one of the two store operations of the current call failed
StoreFailed == storeCall.issue /= Nil \/ storeCall.drain \notin {Nil, "-"}
\* the error of the store operation that failed
StoreError == IF storeCall.issue /= Nil THEN storeCall.issue ELSE storeCall.drain
\* invocation k of a test function hit the result-size limit
HitSizeLimit(k) == ran[k].err = SizeLimitErr

\* C19: a catalogue entry returns an error exactly when issuing its
\* find/aggregate or draining its cursor failed, the error it returns is that
\* store error and it then reports no count; ProfileFunc hands the error to the
\* caller.  A test that hit the result-size limit is logged, has no entry in
\* the results, and the command neither stops nor exits because of it.
C19_StoreErrorReturned ==
    /\ storeCall.test /= 0 =>
          /\ unit.err /= Nil <=> StoreFailed
          /\ StoreFailed => unit.err = StoreError /\ ~storeCall.reported
          /\ ~StoreFailed => storeCall.reported
          /\ storeCall.issue /= Nil => storeCall.drain = "-"
          /\ cpc = "ret" => err = unit.err
    /\ \A k \in DOMAIN ran :
          HitSizeLimit(k) /\ (k < Len(ran) \/ BetweenTests) =>
              /\ \E j \in DOMAIN logged :
                    logged[j] = [test |-> ran[k].test, err |-> SizeLimitErr]
              /\ \A j \in DOMAIN results : results[j].Name /= <<TestNames[ran[k].test]>>
              /\ \A j \in DOMAIN shown : shown[j].Name /= <<TestNames[ran[k].test]>>
              /\ fatal \in {"", "Failed to disconnect from MongoDB"}
              /\ LoopOver => TestsRun = testPairs

\* C19 witness: AggregateBeforeFilterAntiPattern, the third test of the run,
\* hit the size limit; the error was logged, no result was kept for the test,
\* and the command went on to its return
C19_Witness ==
    /\ cpc = "return"
    /\ Len(ran) = 3
    /\ ran[3].test = 3 /\ HitSizeLimit(3)
    /\ ran[1].err = Nil /\ ran[2].err = Nil
    /\ Len(results) = 2
    /\ logged = <<[test |-> 3, err |-> SizeLimitErr]>>

WaitingCallers ==
    (IF pc \in {"antiCall", "optCall"} THEN 1 ELSE 0) + (IF cpc = "call" THEN 1 ELSE 0)
\* at most one measurement window, with at most one query in it, and only
\* while exactly one caller waits for it
OneWindow ==
    /\ WaitingCallers <= 1
    /\ ppc /= "idle" <=> WaitingCallers = 1
    /\ timing => ppc \in {"fn", "since"}
    /\ unit.runs <= 1
    /\ ppc \in {"gc", "baseline", "start", "fn"} => unit.runs = 0
\* a step that enters ProfileFunc is taken when no call is in progress
CallStartsIdle == (ppc' = "gc" /\ ppc /= "gc") => (ppc = "idle" /\ ~timing)

\* C15: in the comparison runner and in the run subcommand at most one
\* ProfileFunc window, holding at most one catalogue query, is in progress at
\* any time, and a ProfileFunc call starts only when the previous one has
\* returned.
C15_Sequential == [](OneWindow) /\ [][CallStartsIdle]_vars

\* C15 witness: the window of the second test of the run subcommand is open,
\* after the first one has returned
C15_Witness ==
    /\ cpc = "call"
    /\ ppc = "fn" /\ timing
    /\ Len(ran) = 1

\* goroutines of the batch that have been started and have not ended
Live == {g \in Goroutines : gor[g] \in {"ready", "inserted"}}
Finished == {g \in Goroutines : gor[g] = "done"}

\* C16: under every interleaving, both batch functions return only when every
\* insert goroutine they started has ended, whatever its insert returned; the
\* wait-group counter counts every live goroutine before it can decrement it,
\* and is never negative.
C16_BatchWaitsForAll ==
    /\ wg >= 0
    /\ wg >= Cardinality(Live)
    /\ gpc = "done" =>
          /\ Live = {}
          /\ Finished = 1 .. eventCount
          /\ \A g \in Finished : insertErr[g] \in {Nil, "insertErr"}
          /\ wg = 0

\* C16 witness: a batch of three events has returned; one insert failed and
\* another succeeded
C16_Witness ==
    /\ gpc = "done"
    /\ genFn = "tick"
    /\ eventCount = 3
    /\ insertErr[1] = "insertErr"
    /\ insertErr[3] = Nil

\* C17: nothing is retried: every insert goroutine issues at most one
\* InsertOne, a batch at most as many as it has events; a measurement loop
\* calls ProfileFunc at most testRepetitions times and each call runs its query
\* once; the run subcommand runs no test twice.
C17_NoRetry ==
    /\ \A g \in Goroutines : attempts[g] <= 1
    /\ Cardinality({g \in Goroutines : attempts[g] > 0}) <= eventCount
    /\ \A v \in Variants :
          /\ hist[v].calls <= testRepetitions
          /\ hist[v].ok + hist[v].failed <= hist[v].calls
    /\ unit.runs <= 1
    /\ \A t \in 1 .. MaxTests : TimesRun(t) <= 1
    /\ Len(ran) <= Len(testPairs)

\* C17 witness: a batch has returned in which an insert failed, every goroutine
\* having issued exactly one InsertOne
C17_Witness ==
    /\ gpc = "done"
    /\ genFn = "batch"
    /\ \E g \in Goroutines : insertErr[g] = "insertErr"
    /\ \A g \in Goroutines : attempts[g] = 1

\* the documents a call at time `clock` has to select
Recent(clock) ==
    {d \in DocIds : store[d].level >= SevThreshold /\ store[d].timestamp >= clock - Day}
\* both functions of the projection pair have reported a count
BothReported ==
    /\ found["anti"].called /\ found["anti"].err = Nil
    /\ found["opt"].called /\ found["opt"].err = Nil

\* C18 as stated: on a store that does not change, once both functions of the
\* projection pair have reported, they have selected the same documents and
\* printed the same count, with different field sets.
C18_SameDocuments ==
    BothReported =>
        /\ found["anti"].ids = found["opt"].ids
        /\ found["anti"].count = found["opt"].count
        /\ found["anti"].fields /= found["opt"].fields

\* C18 amended: on a store that does not change, each function selects the
\* documents of level 3 or more that are at most 24 hours old at the time of
\* its own call and reports their number; the later call selects a subset of
\* the earlier one, and the two select the same documents and report the same
\* count exactly when no document of the earlier selection has a timestamp
\* below the later cut-off; the field sets differ.
C18_SameWithinWindow ==
    BothReported =>
        /\ \A v \in Variants :
              /\ found[v].ids = Recent(found[v].at)
              /\ found[v].count = Cardinality(found[v].ids)
        /\ found["opt"].ids \subseteq found["anti"].ids
        /\ (\A d \in found["anti"].ids : store[d].timestamp >= found["opt"].at - Day)
              <=> found["anti"].ids = found["opt"].ids
        /\ found["anti"].ids = found["opt"].ids
              => found["anti"].count = found["opt"].count
        /\ found["anti"].fields = AllFields
        /\ found["opt"].fields = ProjectedFields
        /\ found["anti"].fields /= found["opt"].fields

\* C18 witness: time passed between the two calls, every selected document is
\* still inside the window of the later call, and both report the same two
\* documents
C18_Witness ==
    /\ BothReported
    /\ found["anti"].at < found["opt"].at
    /\ found["anti"].count = 2
    /\ found["opt"].count = 2

\* C21: every ProfileResult has a non-negative execution time: the elapsed
\* time ProfileFunc measures on a clock that does not go backwards and the
\* result it returns, the averaged results the comparison runner builds from
\* any mix of successful and failed repetitions, and the results the run
\* subcommand keeps and prints.
C21_NonNegativeTime ==
    /\ elapsed >= 0 /\ execTime >= 0
    /\ result.ExecutionTime >= 0
    /\ antiPatternResult.ExecutionTime >= 0
    /\ optimizedResult.ExecutionTime >= 0
    /\ \A k \in DOMAIN results : results[k].ExecutionTime >= 0
    /\ \A k \in DOMAIN shown : shown[k].ExecutionTime >= 0
    /\ \A k \in DOMAIN summary : summary[k].ExecutionTime >= 0

\* C21 witness: the anti-pattern average of a loop with one failed and two
\* successful repetitions that took time
C21_Witness ==
    /\ pc = "optInit"
    /\ hist["anti"].failed = 1
    /\ hist["anti"].ok = 2
    /\ antiPatternTotalTime = 2 * MaxDur
    /\ antiPatternResult.ExecutionTime = (2 * MaxDur) \div testRepetitions

\* where a ProfileFunc call stands with respect to its two windows
WindowOrder ==
    /\ ppc \in {"gc", "baseline", "start"} => ~timing /\ unit.runs = 0
    /\ ppc \in {"start", "fn"} => baselineAlloc = TotalAlloc
    /\ ppc = "fn" => timing /\ unit.runs = 0 /\ elapsed = 0
    /\ ppc = "since" => timing /\ unit.runs = 1 /\ elapsed = unit.time
    /\ ppc \in {"final", "ret"} => ~timing /\ unit.runs = 1 /\ execTime = unit.time
    /\ ppc = "ret" => USub(finalAlloc, baselineAlloc) = unit.mem
\* the order of the steps of a call
StepOrder ==
    ppc' /= ppc =>
        <<ppc, ppc'>> \in {<<"idle", "gc">>, <<"gc", "baseline">>, <<"baseline", "start">>,
                           <<"start", "fn">>, <<"fn", "since">>, <<"since", "final">>,
                           <<"final", "ret">>, <<"ret", "idle">>}

\* C23: a ProfileFunc call forces the collection, reads the baseline counter,
\* takes the start time, runs the unit of work, takes the elapsed time and
\* reads the final counter, in this order; the collection and the baseline
\* read are outside the timed window, and the unit of work is inside the timed
\* window and the memory window: its time and its bytes are what is measured.
C23_StepOrder == [](WindowOrder) /\ [][StepOrder]_vars

\* C23 witness: the unit of work has just run inside the timed window, taking
\* time and allocating memory
C23_Witness ==
    /\ ppc = "since"
    /\ timing
    /\ unit.time > 0
    /\ unit.mem > 0
    /\ TotalAlloc /= baselineAlloc

\* C25: when all repetitions of the optimized variant failed and the
\* anti-pattern average time is above 0, the optimized average time is 0 and
\* the time improvement is exactly 100%; when all repetitions of the
\* anti-pattern failed, the time improvement is 0% whatever the optimized
\* variant measured.
C25_AllRepetitionsFailed ==
    pc = "print" =>
        /\ (hist["opt"].failed = testRepetitions /\ antiPatternResult.ExecutionTime > 0)
              => /\ optimizedResult.ExecutionTime = 0
                 /\ FloatEq(timeImprovement, FloatRat(100, 1))
        /\ hist["anti"].failed = testRepetitions
              => /\ antiPatternResult.ExecutionTime = 0
                 /\ FloatEq(timeImprovement, FloatZero)

\* C25 witness: a comparison whose optimized repetitions all failed, after
\* taking time, while the anti-pattern average is above 0
C25_Witness ==
    /\ pc = "print"
    /\ hist["opt"].failed = testRepetitions
    /\ antiPatternResult.ExecutionTime > 0
    /\ FloatEq(timeImprovement, FloatRat(100, 1))

\* C26: the totals of a measurement loop hold the time and memory of the
\* successful repetitions of that loop only: they are 0 when the loop of a
\* variant of any pair starts, whatever the loops before it measured.
C26_AccumulatorsStartAtZero ==
    /\ pc = "antiLoop" =>
          /\ antiPatternTotalTime = okSum.time
          /\ antiPatternTotalMem = okSum.mem % UintMod
          /\ r = 0 => antiPatternTotalTime = 0 /\ antiPatternTotalMem = 0
    /\ pc = "optLoop" =>
          /\ optimizedTotalTime = okSum.time
          /\ optimizedTotalMem = okSum.mem % UintMod
          /\ r = 0 => optimizedTotalTime = 0 /\ optimizedTotalMem = 0

\* C26 witness: the optimized loop of the second pair starts with totals 0
\* although the anti-pattern loop before it measured time and memory
C26_Witness ==
    /\ pc = "optLoop" /\ r = 0
    /\ i = 1
    /\ antiPatternTotalTime > 0 /\ antiPatternTotalMem > 0
    /\ optimizedTotalTime = 0 /\ optimizedTotalMem = 0

\* C27: when names are given, the tests are executed in the order of the
\* registry, each at most once, whatever the order of the names and however
\* often a name is given; when the loop is over they are the registered tests
\* named.
C27_RegistrationOrder ==
    testsName /= <<>> =>
        /\ \A j, k \in DOMAIN ran : j < k => ran[j].test < ran[k].test
        /\ LoopOver =>
              {ran[k].test : k \in DOMAIN ran} =
                  {t \in 1 .. MaxTests : TestNames[t] \in NamesGiven}

\* C27 witness: the third registered test was named before the second; the
\* second was executed first
C27_Witness ==
    /\ cpc = "return"
    /\ testsName = <<TestNames[3], TestNames[2]>>
    /\ TestsRun = <<2, 3>>

\* both calls of the entry returned nil
BothReturned == Len(calls) = 2 /\ calls[1].err = Nil /\ calls[2].err = Nil
\* the two calls printed the same outcome
SameOutcome == calls[1].ids = calls[2].ids /\ calls[1].count = calls[2].count
\* the filter of the entry depends on the time of the call
TimeRelative(e) == e \in {"FindAllFieldsAntiPattern", "FindEventsByTimeRange"}
\* no document of the store lies in the one window of a time-relative entry
\* and outside the other
SameWindows ==
    \A d \in DOMAIN store :
        /\ ~(calls[1].at - Day <= store[d].timestamp /\ store[d].timestamp < calls[2].at - Day)
        /\ ~(calls[1].at < store[d].timestamp /\ store[d].timestamp <= calls[2].at)
\* a call of a query function writes nothing: not to the store, not to the
\* totals and results of the harness
ReadOnly == UNCHANGED <<store, accVars, avgVars, results, testPairs>>

BatchPerTick ==
    /\ lpc = "startup" => batches = 0 /\ ticks = 0
    /\ lpc = "setup" => batches = 1 /\ ticks = 0 /\ nextTick = 0
    /\ lpc = "select" => batches = 1 + ticks
    /\ lpc = "batch" => batches = ticks
    /\ lpc = "stopped" => batches = ticks /\ duration > 0 /\ timeNow > endTime
\* a tick that is received ends the loop exactly when there is a duration and
\* the time is after the end time; nothing is produced once the loop ended
StopRule ==
    /\ ticks' = ticks + 1 =>
          (lpc' = "stopped") = (duration > 0 /\ timeNow > endTime)
    /\ lpc = "stopped" => batches' = batches /\ lpc' = "stopped"

====
